---- MODULE Spec2Model ----
(***************************************************************************)
(* Digital-twins avatar pipeline: ring stitching and capping of the        *)
(* procedural body mesh, morph-target synthesis, and the binary glTF       *)
(* container writers/readers of src/digital_twins_assets.                  *)
(*                                                                         *)
(* Conventions                                                             *)
(*  - Python lists/arrays are TLA+ sequences; a Python index k names the   *)
(*    element k+1 of the sequence.  Face indices, byte offsets and         *)
(*    accessor indices keep their 0-based Python values.                   *)
(*  - In the mesh-assembly part a vertex is the tag of the code place      *)
(*    that appended it (its coordinates play no role in the index          *)
(*    arithmetic).                                                         *)
(***************************************************************************)
EXTENDS Integers, Sequences, FiniteSets, TLC

VARIABLES
    pc,            \* the position reached in the running script
    prog,          \* which script is running
    anatomy,       \* create_detailed_human_body: the n_points column of anatomy
    arm_segments,  \* add_arms: the n_pts column of arm_segments
    verts,         \* main(): the vertex array (verts / vertices)
    faces,         \* main(): the face index array
    mesh_normals,  \* mesh.vertex_normals: what trimesh holds for (verts, faces)
    morphs,        \* main(): the ordered dict of morph targets
    gltf,          \* the GLTF2 object a script keeps after exporting
    files,         \* the container files written so far, by output name
    loaded,        \* what a reader got back from a container file
    metadata       \* the avatar_metadata.json a script wrote

vars == <<pc, prog, anatomy, arm_segments, verts, faces, mesh_normals, morphs, gltf, files, loaded, metadata>>

-----------------------------------------------------------------------------
(* Bounds of the mesh-assembly model *)

\* longest ring table (anatomy) explored
MaxRings == 4
\* the ring point counts explored (pointCount >= 3): equal and unequal
\* neighbours, an integer ratio (4:8) and fractional ones (3:4, 4:5, 5:8, ...)
PointCounts == {3, 4, 5, 8}
\* longest arm ring table explored
MaxArmRings == 2

-----------------------------------------------------------------------------
(* Generic helpers *)

Max(a, b) == IF a >= b THEN a ELSE b

Range(s) == {s[k] : k \in DOMAIN s}

\* sum(s[:k]) of Python: the sum of the first k entries
RECURSIVE SumFirst(_, _)
SumFirst(s, k) == IF k <= 0 THEN 0 ELSE s[k] + SumFirst(s, k - 1)

\* all sequences over S of length lo..hi
SeqsOf(S, lo, hi) == UNION {[1..n -> S] : n \in lo..hi}

-----------------------------------------------------------------------------
(* create_detailed_human_body: ring stitching and capping *)

\* the uniform-modulo index map: start + j % n, whatever the other ring's count
RingIdxModulo(start, j, n, m) == start + (j % n)

\* start + (j * n // max(prev_n, curr_n)) % n
RingIdx(start, j, n, m) == start + (((j * n) \div m) % n)

\* the step of the body stitcher that emits faces only where both corners
\* advance (and instead of or)
BodyQuadBothAdvance(prev_start, prev_n, curr_start, curr_n, j) ==
    LET m      == Max(prev_n, curr_n)
        p_idx  == RingIdx(prev_start, j, prev_n, m)
        c_idx  == RingIdx(curr_start, j, curr_n, m)
        np_idx == RingIdx(prev_start, j + 1, prev_n, m)
        nc_idx == RingIdx(curr_start, j + 1, curr_n, m)
    IN  IF p_idx # np_idx /\ c_idx # nc_idx
        THEN <<<<p_idx, c_idx, nc_idx>>, <<p_idx, nc_idx, np_idx>>>>
        ELSE <<>>

\* the faces appended for one step j of the body stitcher
BodyQuad(prev_start, prev_n, curr_start, curr_n, j) ==
    LET m      == Max(prev_n, curr_n)
        p_idx  == RingIdx(prev_start, j, prev_n, m)
        c_idx  == RingIdx(curr_start, j, curr_n, m)
        np_idx == RingIdx(prev_start, j + 1, prev_n, m)
        nc_idx == RingIdx(curr_start, j + 1, curr_n, m)
    IN  IF p_idx # np_idx \/ c_idx # nc_idx
        THEN <<<<p_idx, c_idx, nc_idx>>>> \o
             (IF p_idx # np_idx THEN <<<<p_idx, nc_idx, np_idx>>>> ELSE <<>>)
        ELSE <<>>

\* the one-triangle-per-step variant of BodyQuad
BodyStitchOneTriangle(prev_start, prev_n, curr_start, curr_n) ==
    LET m == Max(prev_n, curr_n)
        RECURSIVE Walk(_)
        Walk(j) == IF j >= m THEN <<>>
                   ELSE <<<<RingIdx(prev_start, j, prev_n, m),
                            RingIdx(curr_start, j, curr_n, m),
                            RingIdx(curr_start, j + 1, curr_n, m)>>>> \o Walk(j + 1)
    IN  Walk(0)

\* for j in range(max(prev_n, curr_n)): ... (body)
BodyStitch(prev_start, prev_n, curr_start, curr_n) ==
    LET m == Max(prev_n, curr_n)
        RECURSIVE Walk(_)
        Walk(j) == IF j >= m THEN <<>>
                   ELSE BodyQuad(prev_start, prev_n, curr_start, curr_n, j) \o Walk(j + 1)
    IN  Walk(0)

\* vertices.append([x, y, z]) for every point of every ring, in table order
RECURSIVE RingVerts(_, _, _)
RingVerts(part, tbl, i) ==
    IF i >= Len(tbl) THEN <<>>
    ELSE [j \in 1..tbl[i + 1] |-> <<part, i, j - 1>>] \o RingVerts(part, tbl, i + 1)

\* the faces of all bands of a body ring table; ring i starts at current_idx
RECURSIVE BodyBands(_, _)
BodyBands(tbl, i) ==
    IF i >= Len(tbl) THEN <<>>
    ELSE LET current_idx == SumFirst(tbl, i)
             prev_n      == tbl[i]
             curr_n      == tbl[i + 1]
         IN  BodyStitch(current_idx - prev_n, prev_n, current_idx, curr_n)
             \o BodyBands(tbl, i + 1)

\* a cap centre is appended after its index is taken
CenterAfterAppend(vertices) == Len(vertices) + 1

\* top_center = len(vertices) / bottom_center = len(vertices)
CapCenter(vertices) == Len(vertices)

\* faces.append([top_start + j, top_center, top_start + (j + 1) % top_n])
TopFan(top_start, top_n, top_center) ==
    [k \in 1..top_n |-> <<top_start + (k - 1), top_center, top_start + (k % top_n)>>]

\* the sole fan wound the other way: [(j + 1) % bottom_n, j, bottom_center]
BottomFanReversed(bottom_n, bottom_center) ==
    [k \in 1..bottom_n |-> <<k % bottom_n, k - 1, bottom_center>>]

\* faces.append([j, (j + 1) % bottom_n, bottom_center])
BottomFan(bottom_n, bottom_center) ==
    [k \in 1..bottom_n |-> <<k - 1, k % bottom_n, bottom_center>>]

\* create_detailed_human_body, for a ring table of point counts
CreateBody(tbl) ==
    LET ringVs        == RingVerts("ring", tbl, 0)
        current_idx   == SumFirst(tbl, Len(tbl))
        top_n         == tbl[Len(tbl)]
        top_start     == current_idx - top_n
        top_center    == CapCenter(ringVs)
        vs1           == Append(ringVs, <<"top", 0, 0>>)
        bottom_n      == tbl[1]
        bottom_center == CapCenter(vs1)
        vs2           == Append(vs1, <<"bottom", 0, 0>>)
    IN  [vertices |-> vs2,
         faces    |-> BodyBands(tbl, 1)
                      \o TopFan(top_start, top_n, top_center)
                      \o BottomFan(bottom_n, bottom_center)]

-----------------------------------------------------------------------------
(* add_arms *)

\* the faces appended for one step j of the arm stitcher
ArmQuad(prev_start, prev_n, curr_start, curr_n, j) ==
    LET m   == Max(prev_n, curr_n)
        pi  == RingIdx(prev_start, j, prev_n, m)
        ci  == RingIdx(curr_start, j, curr_n, m)
        npi == RingIdx(prev_start, j + 1, prev_n, m)
        nci == RingIdx(curr_start, j + 1, curr_n, m)
    IN  <<<<pi, ci, nci>>>> \o (IF pi # npi THEN <<<<pi, nci, npi>>>> ELSE <<>>)

\* for j in range(max(prev_n, curr_n)): ... (arm)
ArmStitch(prev_start, prev_n, curr_start, curr_n) ==
    LET m == Max(prev_n, curr_n)
        RECURSIVE Walk(_)
        Walk(j) == IF j >= m THEN <<>>
                   ELSE ArmQuad(prev_start, prev_n, curr_start, curr_n, j) \o Walk(j + 1)
    IN  Walk(0)

\* the faces of all bands of one arm whose first vertex is base_idx
RECURSIVE ArmBands(_, _, _)
ArmBands(segs, base_idx, i) ==
    IF i >= Len(segs) THEN <<>>
    ELSE LET prev_start == base_idx + SumFirst(segs, i - 1)
             curr_start == base_idx + SumFirst(segs, i)
         IN  ArmStitch(prev_start, segs[i], curr_start, segs[i + 1])
             \o ArmBands(segs, base_idx, i + 1)

\* one pass of "for side in [-1, 1]" over the mesh built so far
AddOneArm(m, segs, side) ==
    LET base_idx    == Len(m.vertices)
        withRings   == m.vertices \o RingVerts(<<"arm", side>>, segs, 0)
        hand_start  == base_idx + SumFirst(segs, Len(segs) - 1)
        hand_n      == segs[Len(segs)]
        hand_center == CapCenter(withRings)
    IN  [vertices |-> Append(withRings, <<"hand", side, 0>>),
         faces    |-> m.faces \o ArmBands(segs, base_idx, 1)
                      \o TopFan(hand_start, hand_n, hand_center)]

\* add_arms(vertices, faces): both sides, left (-1) first
AddArms(vertices, fcs, segs) ==
    AddOneArm(AddOneArm([vertices |-> vertices, faces |-> fcs], segs, -1), segs, 1)

-----------------------------------------------------------------------------
(* The mesh-assembly program: main() of create_ultra_detailed_avatar.py    *)
(* up to the call of add_arms, for any ring tables.                        *)

RingTables(maxLen) == SeqsOf(PointCounts, 1, maxLen)

InitMesh ==
    /\ pc = "start"
    /\ prog = "ultra_mesh"
    /\ anatomy \in RingTables(MaxRings)
    /\ arm_segments = <<>>
    /\ verts = <<>>
    /\ faces = <<>>
    /\ mesh_normals = <<>>
    /\ morphs = <<>>
    /\ gltf = <<>>
    /\ files = <<>>
    /\ loaded = <<>>
    /\ metadata = <<>>

\* verts, faces = create_detailed_human_body(height=height)
CreateDetailedHumanBody ==
    /\ pc = "start"
    /\ LET m == CreateBody(anatomy)
       IN  /\ verts' = m.vertices
           /\ faces' = m.faces
    /\ pc' = "body"
    /\ UNCHANGED <<prog, anatomy, arm_segments, mesh_normals, morphs, gltf, files, loaded,
                 metadata>>

\* verts, faces = add_arms(verts, faces, height)
AddArmsStep ==
    /\ pc = "body"
    /\ \E segs \in RingTables(MaxArmRings) :
          LET m == AddArms(verts, faces, segs)
          IN  /\ arm_segments' = segs
              /\ verts' = m.vertices
              /\ faces' = m.faces
    /\ pc' = "arms"
    /\ UNCHANGED <<prog, anatomy, mesh_normals, morphs, gltf, files, loaded, metadata>>

NextMesh == CreateDetailedHumanBody \/ AddArmsStep

SpecMesh == InitMesh /\ [][NextMesh]_vars

-----------------------------------------------------------------------------
(* Numbers.  A length is an integer count of 1e-4 m (float64 of the code);   *)
(* a ratio (y_norm, a Gaussian, a blend coefficient, a weight) is an integer *)
(* count of thousandths.  A float32 is a length that is a multiple of        *)
(* F32Step, so astype(np.float32) rounds and is not the identity.            *)

\* np.float32: the spacing of the values a float32 array can hold
F32Step == 2

Abs(a) == IF a < 0 THEN -a ELSE a

Sign(a) == IF a < 0 THEN -1 ELSE IF a > 0 THEN 1 ELSE 0

Min(a, b) == IF a <= b THEN a ELSE b

\* a / b rounded toward zero (b > 0)
Quot(a, b) == Sign(a) * (Abs(a) \div b)

\* a * num / den on fixed-point numbers
MulQ(a, num, den) == Quot(a * num, den)

\* one value stored into a float32 array
ToF32(a) == Sign(a) * ((Abs(a) \div F32Step) * F32Step)

\* one 3-vector stored into a float32 array
Vec32(v) == <<ToF32(v[1]), ToF32(v[2]), ToF32(v[3])>>

\* arr.astype(np.float32) of an (n, 3) array
AsFloat32(arr) == [i \in DOMAIN arr |-> Vec32(arr[i])]

\* the largest r with r * r <= n, by bisection on lo..hi
RECURSIVE SqrtIn(_, _, _)
SqrtIn(n, lo, hi) ==
    IF lo >= hi THEN lo
    ELSE LET mid == (lo + hi + 1) \div 2
         IN  IF mid * mid <= n THEN SqrtIn(n, mid, hi) ELSE SqrtIn(n, lo, mid - 1)

\* np.sqrt on lengths (squares of lengths stay below 2^31)
ISqrt(n) == SqrtIn(n, 0, 46340)

\* 1000 * exp(-k / 10) for k = 0 .. 70
ExpTable ==
    <<1000, 905, 819, 741, 670, 607, 549, 497, 449, 407, 368, 333, 301, 273, 247,
      223, 202, 183, 165, 150, 135, 122, 111, 100, 91, 82, 74, 67, 61, 55, 50, 45,
      41, 37, 33, 30, 27, 25, 22, 20, 18, 17, 15, 14, 12, 11, 10, 9, 8, 7, 7, 6, 6,
      5, 5, 4, 4, 3, 3, 3, 2, 2, 2, 2, 2, 2, 1, 1, 1, 1, 1>>

\* np.exp(-t) in thousandths, t in thousandths; never exactly zero
ExpNeg(t) == IF t \div 100 >= Len(ExpTable) THEN 1 ELSE ExpTable[(t \div 100) + 1]

\* np.exp(-((y_norm - c)**2) / s): d = y_norm - c and s, both in thousandths
Gauss(d, s) == ExpNeg((d * d) \div s)

\* arr[:, axis].min() and .max() of an (n, 3) array
ColMin(arr, axis) == CHOOSE m \in {arr[i][axis] : i \in DOMAIN arr} :
                        \A i \in DOMAIN arr : m <= arr[i][axis]

ColMax(arr, axis) == CHOOSE m \in {arr[i][axis] : i \in DOMAIN arr} :
                        \A i \in DOMAIN arr : m >= arr[i][axis]

\* the first row of arr
FirstRow(arr) == arr[1]

\* arr.min(axis=0).tolist() and arr.max(axis=0).tolist()
MinAxis0(arr) == <<ColMin(arr, 1), ColMin(arr, 2), ColMin(arr, 3)>>

MaxAxis0(arr) == <<ColMax(arr, 1), ColMax(arr, 2), ColMax(arr, 3)>>

Zero3 == <<0, 0, 0>>

\* a + b of two 3-vectors, stored as float32
Add3(a, b) == Vec32(<<a[1] + b[1], a[2] + b[2], a[3] + b[3]>>)

\* v * (c / 1000) of a float32 3-vector by a Python float
Scale3(v, c) == Vec32(<<MulQ(v[1], c, 1000), MulQ(v[2], c, 1000), MulQ(v[3], c, 1000)>>)

\* field * a + field2 * b, element by element (float32 arrays)
Blend2(fa, a, fb, b) == [i \in DOMAIN fa |-> Add3(Scale3(fa[i], a), Scale3(fb[i], b))]

-----------------------------------------------------------------------------
(* Shared pieces of the per-vertex loops of the morph synthesizers *)

\* (v[1] - y_min) / (y_max - y_min) in thousandths (y_max > y_min)
YNorm(v, y_min, y_max) == Quot((v[2] - y_min) * 1000, y_max - y_min)

\* lo < y_norm < hi, lo and hi in thousandths, compared exactly
InBand(v, y_min, y_max, lo, hi) ==
    /\ lo * (y_max - y_min) < (v[2] - y_min) * 1000
    /\ (v[2] - y_min) * 1000 < hi * (y_max - y_min)

\* x**2 + z**2
RadialSq(v) == v[1] * v[1] + v[3] * v[3]

\* np.sqrt(v[0]**2 + v[2]**2) > lim
FarFromAxis(v, lim) == RadialSq(v) > lim * lim

\* (v[0], 0, v[2]) / norm * mag (norm > 0); the 1e-6 some scripts add to
\* norm is below the resolution of a length
Radial(v, mag) ==
    LET norm == ISqrt(RadialSq(v))
    IN  <<Quot(v[1] * mag, norm), 0, Quot(v[3] * mag, norm)>>

\* 1.0 + k * max(0, v[2] / (abs(v[2]) + 0.01)), in thousandths
FrontFactor(v, k) == 1000 + MulQ(k, IF v[3] > 0 THEN Quot(v[3] * 1000, v[3] + 100) ELSE 0, 1000)

\* the ordered dict morph_targets as a sequence of (name, data) items
Item(name, data) == [name |-> name, data |-> data]

Keys(d) == [i \in DOMAIN d |-> d[i].name]

Get(d, name) == (CHOOSE it \in Range(d) : it.name = name).data

-----------------------------------------------------------------------------
(* create_fixed_avatar.py: create_morph_targets *)

SCALE_fixed == 500

\* n_verts minus one
LenMinusOne(vertices) == Len(vertices) - 1

\* n_verts = len(vertices)
NVerts(vertices) == Len(vertices)

\* the Weight loop without the radial-distance test: every vertex of the
\* band is pushed along x
FixedWeightUnguarded(vertices, y_min, y_max) ==
    [i \in 1..NVerts(vertices) |->
        IF InBand(vertices[i], y_min, y_max, 200, 900)
        THEN Vec32(<<SCALE_fixed, 0, 0>>)
        ELSE Zero3]

FixedWeight(vertices, y_min, y_max) ==
    [i \in 1..NVerts(vertices) |->
        LET v == vertices[i]
            factor == IF InBand(v, y_min, y_max, 500, 700) THEN 1500
                      ELSE IF InBand(v, y_min, y_max, 300, 500) THEN 1200 ELSE 1000
        IN  IF InBand(v, y_min, y_max, 200, 900) /\ FarFromAxis(v, 200)
            THEN Vec32(Radial(v, MulQ(SCALE_fixed, factor, 1000)))
            ELSE Zero3]

FixedAbdomen(vertices, y_min, y_max) ==
    [i \in 1..NVerts(vertices) |->
        LET v == vertices[i]
            front_factor == FrontFactor(v, 500)
            y_factor == Gauss(YNorm(v, y_min, y_max) - 620, 10)
            mag == MulQ(MulQ(MulQ(SCALE_fixed, 1500, 1000), front_factor, 1000), y_factor, 1000)
        IN  IF InBand(v, y_min, y_max, 500, 750) /\ FarFromAxis(v, 200)
            THEN Vec32(Radial(v, mag))
            ELSE Zero3]

FixedMuscle(vertices, y_min, y_max) ==
    [i \in 1..NVerts(vertices) |->
        LET v == vertices[i]
        IN  IF ~FarFromAxis(v, 200) THEN Zero3
            ELSE IF InBand(v, y_min, y_max, 750, 900) \/ Abs(v[1]) > 1500
                 THEN Vec32(Radial(v, MulQ(SCALE_fixed, 800, 1000)))
            ELSE IF InBand(v, y_min, y_max, 100, 450)
                 THEN Vec32(Radial(v, MulQ(SCALE_fixed, 600, 1000)))
            ELSE Zero3]

\* the Posture loop without the height test
FixedPostureUnbanded(vertices, y_min, y_max) ==
    [i \in 1..NVerts(vertices) |->
        Vec32(<<0, 0, MulQ(MulQ(YNorm(vertices[i], y_min, y_max) - 500, 100, 1000),
                           SCALE_fixed, 1000)>>)]

FixedPosture(vertices, y_min, y_max) ==
    [i \in 1..NVerts(vertices) |->
        LET v == vertices[i]
            forward_lean == MulQ(YNorm(v, y_min, y_max) - 500, 100, 1000)
        IN  IF InBand(v, y_min, y_max, 500, 950)
            THEN Vec32(<<0, 0, MulQ(forward_lean, SCALE_fixed, 1000)>>)
            ELSE Zero3]

\* create_morph_targets(vertices, height) of create_fixed_avatar.py
FixedMorphTargets(vertices) ==
    LET y_min   == ColMin(vertices, 2)
        y_max   == ColMax(vertices, 2)
        weight  == FixedWeight(vertices, y_min, y_max)
        abdomen == FixedAbdomen(vertices, y_min, y_max)
        muscle  == FixedMuscle(vertices, y_min, y_max)
        posture == FixedPosture(vertices, y_min, y_max)
    IN  << Item("Weight", weight),
           Item("AbdomenGirth", abdomen),
           Item("MuscleMass", muscle),
           Item("Posture", posture),
           Item("DiabetesEffect", Blend2(weight, 500, abdomen, 800)),
           Item("HypertensionEffect", Blend2(weight, 300, abdomen, 400)),
           Item("HeartDiseaseEffect", Blend2(weight, 200, posture, 500)) >>

-----------------------------------------------------------------------------
(* Bytes.  ndarray.tobytes() and np.frombuffer on little-endian 4-byte       *)
(* elements.  A float32 is written as the sign in the top bit of byte 3 and  *)
(* the magnitude (in float32 steps) in bytes 0..2; a uint32 as 4 base-256    *)
(* digits.                                                                   *)

\* byte b (0..3) of the uint32 n
ByteOfU32(n, b) ==
    CASE b = 0 -> n % 256
      [] b = 1 -> (n \div 256) % 256
      [] b = 2 -> (n \div 65536) % 256
      [] OTHER -> (n \div 16777216) % 256

\* byte b of the magnitude of a, the sign left out
ByteOfMagnitude(a, b) == ByteOfU32(Abs(a) \div F32Step, b)

\* byte b (0..3) of the float32 nearest to a
ByteOfF32(a, b) ==
    LET m == Abs(a) \div F32Step
    IN  CASE b = 0 -> m % 256
          [] b = 1 -> (m \div 256) % 256
          [] b = 2 -> (m \div 65536) % 256
          [] OTHER -> IF a < 0 /\ m > 0 THEN 128 ELSE 0

\* arr.astype(np.float32).tobytes() of an (n, 3) array
Vec3Bytes(arr) ==
    [k \in 1..(12 * Len(arr)) |->
        ByteOfF32(arr[((k - 1) \div 12) + 1][(((k - 1) % 12) \div 4) + 1], (k - 1) % 4)]

\* faces.astype(np.uint32).flatten().tobytes() of an (n, 3) index array
IndexBytes(fcs) ==
    [k \in 1..(12 * Len(fcs)) |->
        ByteOfU32(fcs[((k - 1) \div 12) + 1][(((k - 1) % 12) \div 4) + 1], (k - 1) % 4)]

\* arr.nbytes of a float32 (n, 3) array or of a flattened uint32 index array
NBytes(arr) == 12 * Len(arr)

\* the float32 at byte offset off of blob
F32At(blob, off) ==
    LET m == blob[off + 1] + 256 * blob[off + 2] + 65536 * blob[off + 3]
    IN  (IF blob[off + 4] >= 128 THEN -1 ELSE 1) * m * F32Step

\* the uint32 at byte offset off of blob
U32At(blob, off) ==
    blob[off + 1] + 256 * blob[off + 2] + 65536 * blob[off + 3] + 16777216 * blob[off + 4]

\* len(blob[start:end]): a Python slice stops at the end of the data
SliceLen(blob, start, end) == Max(0, Min(end, Len(blob)) - Min(start, Len(blob)))

\* np.frombuffer(blob[start:start + count * 12], dtype=np.float32).reshape(-1, 3)
FromBufferVec3(blob, start, count) ==
    [i \in 1..(SliceLen(blob, start, start + count * 12) \div 12) |->
        <<F32At(blob, start + 12 * (i - 1)),
          F32At(blob, start + 12 * (i - 1) + 4),
          F32At(blob, start + 12 * (i - 1) + 8)>>]

\* np.frombuffer(blob[start:start + count * 4], dtype=np.uint32)
FromBufferU32(blob, start, count) ==
    [i \in 1..(SliceLen(blob, start, start + count * 4) \div 4) |->
        U32At(blob, start + 4 * (i - 1))]

-----------------------------------------------------------------------------
(* The GLTF2 object of pygltflib, reduced to the fields the scripts set *)

ARRAY_BUFFER == 34962
ELEMENT_ARRAY_BUFFER == 34963
FLOAT == 5126
UNSIGNED_INT == 5125

\* None
None == <<>>

BufferView(byteOffset, byteLength, target) ==
    [byteOffset |-> byteOffset, byteLength |-> byteLength, target |-> target]

Accessor(bufferView, componentType, count, type, max, min) ==
    [bufferView |-> bufferView, byteOffset |-> 0, componentType |-> componentType,
     count |-> count, type |-> type, max |-> max, min |-> min]

\* every section placed at start
OffsetNoAdvance(start, lens, i) == start

\* byteOffset of the i-th of consecutive sections of the given lengths after start
OffsetAfter(start, lens, i) == start + SumFirst(lens, i - 1)

\* b'' + b1 + b2 + ...: the concatenation of a sequence of byte strings
RECURSIVE Concat(_)
Concat(ss) == IF ss = <<>> THEN <<>> ELSE Head(ss) \o Concat(Tail(ss))

GLTF2(blob, byteLength, bufferViews, accessors, targets, weights, targetNames) ==
    [blob |-> blob, byteLength |-> byteLength, bufferViews |-> bufferViews,
     accessors |-> accessors, POSITION |-> 0, NORMAL |-> 1, indices |-> 2,
     targets |-> targets, weights |-> weights, targetNames |-> targetNames]

\* [0.0] * n
Zeros(n) == [i \in 1..n |-> 0]

-----------------------------------------------------------------------------
(* create_fixed_avatar.py: export_to_glb.  vertex_normals is what trimesh    *)
(* returns for the mesh built from (vertices, faces).                        *)

ExportToGlbFixed(vertices, fcs, morph_targets, vertex_normals) ==
    LET normals           == AsFloat32(vertex_normals)
        vertices_bytes    == Vec3Bytes(vertices)
        normals_bytes     == Vec3Bytes(normals)
        faces_bytes       == IndexBytes(fcs)
        morph_target_list == Keys(morph_targets)
        n                 == Len(morph_target_list)
        morph_bytes       == Concat([i \in 1..n |-> Vec3Bytes(Get(morph_targets, morph_target_list[i]))])
        total_buffer      == vertices_bytes \o normals_bytes \o faces_bytes \o morph_bytes
        off_normals       == 0 + Len(vertices_bytes)
        off_faces         == off_normals + Len(normals_bytes)
        off_morphs        == off_faces + Len(faces_bytes)
        mt_data(i)        == Get(morph_targets, morph_target_list[i])
        mt_bytes_len      == [i \in 1..n |-> Len(Vec3Bytes(mt_data(i)))]
        morph_accessor_indices == [i \in 1..n |-> 3 + (i - 1)]
    IN  GLTF2(total_buffer, Len(total_buffer),
              << BufferView(0, Len(vertices_bytes), ARRAY_BUFFER),
                 BufferView(off_normals, Len(normals_bytes), ARRAY_BUFFER),
                 BufferView(off_faces, Len(faces_bytes), ELEMENT_ARRAY_BUFFER) >>
              \o [i \in 1..n |-> BufferView(OffsetAfter(off_morphs, mt_bytes_len, i),
                                            mt_bytes_len[i], ARRAY_BUFFER)],
              << Accessor(0, FLOAT, Len(vertices), "VEC3", MaxAxis0(vertices), MinAxis0(vertices)),
                 Accessor(1, FLOAT, Len(normals), "VEC3", None, None),
                 Accessor(2, UNSIGNED_INT, Len(fcs) * 3, "SCALAR", None, None) >>
              \o [i \in 1..n |-> Accessor(3 + (i - 1), FLOAT, Len(mt_data(i)), "VEC3",
                                          MaxAxis0(mt_data(i)), MinAxis0(mt_data(i)))],
              morph_accessor_indices,
              Zeros(n),
              morph_target_list)

-----------------------------------------------------------------------------
(* The meshes the export scripts are run on: what main() holds after mesh    *)
(* assembly, repair and smoothing (every vertex used by a face, at least two *)
(* heights).                                                                 *)

\* most vertices of a mesh explored
MaxVerts == 4

\* body points (x, y, z) in 1e-4 m: y up from the soles, z to the front
Points ==
    << <<0, 17500, 0>>,         \* scalp apex, on the midline
       <<301, 10500, 401>>,     \* abdomen, front
       <<-300, 10500, -400>>,   \* abdomen, back
       <<300, 0, 400>>,         \* sole
       <<3000, 14000, 0>>,      \* arm
       <<-600, 7000, 800>>,     \* thigh, front
       <<0, 12250, 0>>,         \* torso, on the midline
       <<900, 14001, 1200>> >>  \* chest, front

\* the elements of a set of numbers in increasing order
RECURSIVE SortedSeq(_)
SortedSeq(S) ==
    IF S = {} THEN <<>>
    ELSE LET m == CHOOSE x \in S : \A y \in S : x <= y
         IN  <<m>> \o SortedSeq(S \ {m})

VertexArrays ==
    LET picks == {SortedSeq(S) : S \in {T \in SUBSET (1..Len(Points)) :
                                            Cardinality(T) \in 3..MaxVerts}}
        arrs  == {[k \in 1..Len(idx) |-> Points[idx[k]]] : idx \in picks}
    IN  {a \in arrs : \E i, j \in DOMAIN a : a[i][2] # a[j][2]}

\* triangle lists over nv vertices that use every vertex
FaceLists(nv) ==
    { [k \in 1..(nv - 2) |-> <<k - 1, k, k + 1>>],
      [k \in 1..(nv - 2) |-> <<0, k, k + 1>>],
      [k \in 1..(nv - 2) |-> <<k - 1, k + 1, k>>] }

\* vertex normals (unit length 10000) trimesh may hold for nv vertices
NormalArrays(nv) ==
    { [k \in 1..nv |-> <<0, 0, 10000>>],
      [k \in 1..nv |-> IF k % 2 = 1 THEN <<5773, 5773, 5773>> ELSE <<-6000, 0, 8000>>] }

\* the empty file system
NoFiles == <<>>

\* gltf.save(path)
Save(fs, path, g) == [p \in (DOMAIN fs) \cup {path} |-> IF p = path THEN g ELSE fs[p]]

InitExport(script) ==
    /\ pc = "mesh"
    /\ prog = script
    /\ anatomy = <<>>
    /\ arm_segments = <<>>
    /\ verts \in VertexArrays
    /\ faces \in FaceLists(Len(verts))
    /\ mesh_normals \in NormalArrays(Len(verts))
    /\ morphs = <<>>
    /\ gltf = None
    /\ files = NoFiles
    /\ loaded = None
    /\ metadata = None

-----------------------------------------------------------------------------
(* main() of create_fixed_avatar.py, from the smoothed mesh on *)

\* vertices = np.array(mesh.vertices, dtype=np.float32); create_morph_targets
FixedCreateMorphs ==
    /\ pc = "mesh" /\ prog = "fixed"
    /\ verts' = AsFloat32(verts)
    /\ morphs' = FixedMorphTargets(verts')
    /\ pc' = "morphs"
    /\ UNCHANGED <<prog, anatomy, arm_segments, faces, mesh_normals, gltf, files, loaded, metadata>>

\* target_names = export_to_glb(vertices, faces, morph_targets, output_path)
FixedExport ==
    /\ pc = "morphs" /\ prog = "fixed"
    /\ files' = Save(files, "avatar_morphable.glb",
                     ExportToGlbFixed(verts, faces, morphs, mesh_normals))
    /\ pc' = "exported"
    /\ UNCHANGED <<prog, anatomy, arm_segments, verts, faces, mesh_normals, morphs, gltf,
                 loaded, metadata>>

-----------------------------------------------------------------------------
(* create_simple_avatar.py: create_morph_targets and export_to_glb *)

SCALE_simple == 400

SimpleWeight(vertices, y_min, y_max) ==
    [i \in 1..Len(vertices) |->
        LET v == vertices[i]
            factor == IF InBand(v, y_min, y_max, 450, 750) THEN 1500 ELSE 1000
        IN  IF InBand(v, y_min, y_max, 150, 920) /\ FarFromAxis(v, 200)
            THEN Vec32(Radial(v, MulQ(SCALE_simple, factor, 1000)))
            ELSE Zero3]

SimpleAbdomen(vertices, y_min, y_max) ==
    [i \in 1..Len(vertices) |->
        LET v == vertices[i]
            front_factor == FrontFactor(v, 600)
            y_factor == Gauss(YNorm(v, y_min, y_max) - 580, 15)
            mag == MulQ(MulQ(MulQ(SCALE_simple, 2000, 1000), front_factor, 1000), y_factor, 1000)
        IN  IF InBand(v, y_min, y_max, 450, 750) /\ FarFromAxis(v, 200)
            THEN Vec32(Radial(v, mag))
            ELSE Zero3]

SimpleMuscle(vertices, y_min, y_max) ==
    [i \in 1..Len(vertices) |->
        LET v == vertices[i]
        IN  IF ~FarFromAxis(v, 200) THEN Zero3
            ELSE IF InBand(v, y_min, y_max, 700, 880) \/ Abs(v[1]) > 1500
                 THEN Vec32(Radial(v, MulQ(SCALE_simple, 800, 1000)))
            ELSE IF InBand(v, y_min, y_max, 80, 450)
                 THEN Vec32(Radial(v, MulQ(SCALE_simple, 600, 1000)))
            ELSE Zero3]

SimplePosture(vertices, y_min, y_max) ==
    [i \in 1..Len(vertices) |->
        LET v == vertices[i]
            forward_lean == MulQ(YNorm(v, y_min, y_max) - 500, 80, 1000)
        IN  IF InBand(v, y_min, y_max, 500, 980)
            THEN Vec32(<<0, 0, MulQ(forward_lean, SCALE_simple, 1000)>>)
            ELSE Zero3]

\* create_morph_targets(vertices, height) of create_simple_avatar.py
SimpleMorphTargets(vertices) ==
    LET y_min   == ColMin(vertices, 2)
        y_max   == ColMax(vertices, 2)
        weight  == SimpleWeight(vertices, y_min, y_max)
        abdomen == SimpleAbdomen(vertices, y_min, y_max)
        muscle  == SimpleMuscle(vertices, y_min, y_max)
        posture == SimplePosture(vertices, y_min, y_max)
    IN  << Item("Weight", weight),
           Item("AbdomenGirth", abdomen),
           Item("MuscleMass", muscle),
           Item("Posture", posture),
           Item("DiabetesEffect", Blend2(weight, 500, abdomen, 800)),
           Item("HypertensionEffect", Blend2(weight, 300, abdomen, 400)),
           Item("HeartDiseaseEffect", Blend2(weight, 200, posture, 500)) >>

\* export_to_glb(vertices, faces, morph_targets, output_path) of
\* create_simple_avatar.py, up to gltf.save
ExportToGlbSimple(vertices, fcs, morph_targets, vertex_normals) ==
    LET normals           == AsFloat32(vertex_normals)
        vertices_bytes    == Vec3Bytes(vertices)
        normals_bytes     == Vec3Bytes(normals)
        faces_bytes       == IndexBytes(fcs)
        morph_target_list == Keys(morph_targets)
        n                 == Len(morph_target_list)
        morph_bytes       == Concat([i \in 1..n |-> Vec3Bytes(Get(morph_targets, morph_target_list[i]))])
        total_buffer      == vertices_bytes \o normals_bytes \o faces_bytes \o morph_bytes
        off_normals       == 0 + Len(vertices_bytes)
        off_faces         == off_normals + Len(normals_bytes)
        off_morphs        == off_faces + Len(faces_bytes)
        mt_data(i)        == Get(morph_targets, morph_target_list[i])
        mt_bytes_len      == [i \in 1..n |-> Len(Vec3Bytes(mt_data(i)))]
        morph_accessor_indices == [i \in 1..n |-> 3 + (i - 1)]
    IN  GLTF2(total_buffer, Len(total_buffer),
              << BufferView(0, Len(vertices_bytes), ARRAY_BUFFER),
                 BufferView(off_normals, Len(normals_bytes), ARRAY_BUFFER),
                 BufferView(off_faces, Len(faces_bytes), ELEMENT_ARRAY_BUFFER) >>
              \o [i \in 1..n |-> BufferView(OffsetAfter(off_morphs, mt_bytes_len, i),
                                            mt_bytes_len[i], ARRAY_BUFFER)],
              << Accessor(0, FLOAT, Len(vertices), "VEC3", MaxAxis0(vertices), MinAxis0(vertices)),
                 Accessor(1, FLOAT, Len(normals), "VEC3", None, None),
                 Accessor(2, UNSIGNED_INT, Len(fcs) * 3, "SCALAR", None, None) >>
              \o [i \in 1..n |-> Accessor(3 + (i - 1), FLOAT, Len(mt_data(i)), "VEC3",
                                          MaxAxis0(mt_data(i)), MinAxis0(mt_data(i)))],
              morph_accessor_indices,
              Zeros(n),
              morph_target_list)

\* HEIGHT = 1.75
HEIGHT == 17500

\* create_human_body(HEIGHT * 0.98): the same primitives placed at heights
\* relative to the smaller stature
FemaleBody(vertices) ==
    [i \in DOMAIN vertices |-> <<vertices[i][1], MulQ(vertices[i][2], 980, 1000), vertices[i][3]>>]

\* female_verts after the hip and waist adjustment of main()
FemaleVerts(vertices) ==
    LET body == AsFloat32(FemaleBody(vertices))
        h    == MulQ(HEIGHT, 980, 1000)
    IN  [i \in DOMAIN body |->
            LET v == body[i]
            IN  IF InBand(v, 0, h, 450, 550) THEN <<ToF32(MulQ(v[1], 1080, 1000)), v[2], v[3]>>
                ELSE IF InBand(v, 0, h, 580, 680) THEN <<ToF32(MulQ(v[1], 920, 1000)), v[2], v[3]>>
                ELSE v]

\* vertices = np.array(mesh.vertices, dtype=np.float32); create_morph_targets
SimpleCreateMorphs ==
    /\ pc = "mesh" /\ prog = "simple"
    /\ verts' = AsFloat32(verts)
    /\ morphs' = SimpleMorphTargets(verts')
    /\ pc' = "morphs"
    /\ UNCHANGED <<prog, anatomy, arm_segments, faces, mesh_normals, gltf, files, loaded, metadata>>

\* target_names = export_to_glb(vertices, faces, morph_targets, output_path)
SimpleExport ==
    /\ pc = "morphs" /\ prog = "simple"
    /\ files' = Save(files, "avatar_morphable.glb",
                     ExportToGlbSimple(verts, faces, morphs, mesh_normals))
    /\ pc' = "exported"
    /\ UNCHANGED <<prog, anatomy, arm_segments, verts, faces, mesh_normals, morphs, gltf,
                 loaded, metadata>>

\* the female version: female_verts, female_morph_targets, export_to_glb
SimpleExportFemale ==
    /\ pc = "exported" /\ prog = "simple"
    /\ LET female_verts == FemaleVerts(verts)
       IN  files' = Save(files, "avatar_female.glb",
                         ExportToGlbSimple(female_verts, faces,
                                           SimpleMorphTargets(female_verts), mesh_normals))
    /\ pc' = "female"
    /\ UNCHANGED <<prog, anatomy, arm_segments, verts, faces, mesh_normals, morphs, gltf,
                 loaded, metadata>>

-----------------------------------------------------------------------------
(* Reading a container back: add_morph_targets.py lines 14-28 *)

\* start = buffer_view.byteOffset + (accessor.byteOffset or 0); pygltflib
\* holds an accessor without byteOffset as byteOffset 0
AccessorStart(g, a) ==
    g.bufferViews[g.accessors[a + 1].bufferView + 1].byteOffset
        + g.accessors[a + 1].byteOffset

\* the array accessor a (0-based) of container g describes, read from its blob
ReadAccessor(g, a) ==
    LET acc == g.accessors[a + 1]
    IN  IF acc.type = "VEC3"
        THEN FromBufferVec3(g.blob, AccessorStart(g, a), acc.count)
        ELSE FromBufferU32(g.blob, AccessorStart(g, a), acc.count)

\* GLTF2().load(path) and the arrays of all its accessors
LoadGlb ==
    /\ loaded = None
    /\ \E path \in DOMAIN files :
          loaded' = [path |-> path,
                     arrays |-> [k \in 1..Len(files[path].accessors) |->
                                    ReadAccessor(files[path], k - 1)]]
    /\ UNCHANGED <<pc, prog, anatomy, arm_segments, verts, faces, mesh_normals, morphs, gltf,
                 files, metadata>>

-----------------------------------------------------------------------------
(* add_morph_targets.py: add_morph_targets_to_glb *)

SCALE_addmorph == 500

AddMorphWeight(vertices, y_min, y_max) ==
    [i \in 1..Len(vertices) |->
        LET v == vertices[i]
            factor == IF InBand(v, y_min, y_max, 400, 800) THEN 1500 ELSE 1000
        IN  IF InBand(v, y_min, y_max, 100, 950) /\ FarFromAxis(v, 200)
            THEN Vec32(Radial(v, MulQ(SCALE_addmorph, factor, 1000)))
            ELSE Zero3]

AddMorphAbdomen(vertices, y_min, y_max) ==
    [i \in 1..Len(vertices) |->
        LET v == vertices[i]
            front_factor == FrontFactor(v, 800)
            y_factor == Gauss(YNorm(v, y_min, y_max) - 550, 20)
            mag == MulQ(MulQ(MulQ(SCALE_addmorph, 2500, 1000), front_factor, 1000), y_factor, 1000)
        IN  IF InBand(v, y_min, y_max, 400, 750) /\ FarFromAxis(v, 200)
            THEN Vec32(Radial(v, mag))
            ELSE Zero3]

AddMorphMuscle(vertices, y_min, y_max) ==
    [i \in 1..Len(vertices) |->
        LET v == vertices[i]
        IN  IF ~FarFromAxis(v, 200) THEN Zero3
            ELSE IF InBand(v, y_min, y_max, 700, 900)
                 THEN Vec32(Radial(v, MulQ(SCALE_addmorph, 1200, 1000)))
            ELSE IF Abs(v[1]) > 1200
                 THEN Vec32(Radial(v, MulQ(SCALE_addmorph, 800, 1000)))
            ELSE IF InBand(v, y_min, y_max, 50, 450)
                 THEN Vec32(Radial(v, MulQ(SCALE_addmorph, 600, 1000)))
            ELSE Zero3]

AddMorphPosture(vertices, y_min, y_max) ==
    [i \in 1..Len(vertices) |->
        LET v == vertices[i]
            forward_lean == MulQ(YNorm(v, y_min, y_max) - 500, 150, 1000)
        IN  IF InBand(v, y_min, y_max, 500, 1000)
            THEN Vec32(<<0,
                         MulQ(MulQ(-forward_lean, SCALE_addmorph, 1000), 500, 1000),
                         MulQ(forward_lean, SCALE_addmorph, 1000)>>)
            ELSE Zero3]

\* lines 33-116: the dict morph_targets built from the vertices read
AddMorphTargets(vertices) ==
    LET y_min   == ColMin(vertices, 2)
        y_max   == ColMax(vertices, 2)
        weight  == AddMorphWeight(vertices, y_min, y_max)
        abdomen == AddMorphAbdomen(vertices, y_min, y_max)
        muscle  == AddMorphMuscle(vertices, y_min, y_max)
        posture == AddMorphPosture(vertices, y_min, y_max)
    IN  << Item("Weight", weight),
           Item("AbdomenGirth", abdomen),
           Item("MuscleMass", muscle),
           Item("Posture", posture),
           Item("DiabetesEffect", Blend2(weight, 600, abdomen, 1000)),
           Item("HypertensionEffect", Blend2(weight, 400, abdomen, 500)),
           Item("HeartDiseaseEffect", Blend2(weight, 300, posture, 800)) >>

\* lines 14-28: the vertices of the POSITION accessor of the loaded container
AddMorphReadVertices(g) ==
    FromBufferVec3(g.blob, AccessorStart(g, g.POSITION), g.accessors[g.POSITION + 1].count)

\* target_names, lines 119-120
AddMorphTargetNames ==
    <<"Weight", "AbdomenGirth", "MuscleMass", "Posture",
      "DiabetesEffect", "HypertensionEffect", "HeartDiseaseEffect">>

\* the container with the morph bytes put in front of the loaded blob
AddMorphPrepend(g, morph_targets) ==
    LET target_names == AddMorphTargetNames
        n            == Len(target_names)
        mt_data(i)   == Get(morph_targets, target_names[i])
        morph_bytes  == Concat([i \in 1..n |-> Vec3Bytes(mt_data(i))])
        new_binary   == morph_bytes \o g.blob
        byte_length  == [i \in 1..n |-> Len(Vec3Bytes(mt_data(i)))]
    IN  [g EXCEPT
            !.blob        = new_binary,
            !.byteLength  = Len(new_binary),
            !.bufferViews = @ \o [i \in 1..n |->
                                    BufferView(OffsetAfter(0, byte_length, i),
                                               byte_length[i], ARRAY_BUFFER)],
            !.accessors   = @ \o [i \in 1..n |->
                                    Accessor(Len(g.bufferViews) + (i - 1), FLOAT,
                                             Len(mt_data(i)), "VEC3",
                                             MaxAxis0(mt_data(i)), MinAxis0(mt_data(i)))],
            !.targets     = [i \in 1..n |-> Len(g.accessors) + (i - 1)],
            !.weights     = Zeros(n),
            !.targetNames = target_names]

\* lines 122-177: the loaded container with the morph targets appended
AddMorphAppend(g, morph_targets) ==
    LET target_names == AddMorphTargetNames
        n            == Len(target_names)
        mt_data(i)   == Get(morph_targets, target_names[i])
        morph_bytes  == Concat([i \in 1..n |-> Vec3Bytes(mt_data(i))])
        new_binary   == g.blob \o morph_bytes
        byte_length  == [i \in 1..n |-> Len(Vec3Bytes(mt_data(i)))]
        bv_idx(i)    == Len(g.bufferViews) + (i - 1)
        acc_idx(i)   == Len(g.accessors) + (i - 1)
    IN  [g EXCEPT
            !.blob        = new_binary,
            !.byteLength  = Len(new_binary),
            !.bufferViews = @ \o [i \in 1..n |->
                                    BufferView(OffsetAfter(Len(g.blob), byte_length, i),
                                               byte_length[i], ARRAY_BUFFER)],
            !.accessors   = @ \o [i \in 1..n |->
                                    Accessor(bv_idx(i), FLOAT, Len(mt_data(i)), "VEC3",
                                             MaxAxis0(mt_data(i)), MinAxis0(mt_data(i)))],
            !.targets     = [i \in 1..n |-> acc_idx(i)],
            !.weights     = Zeros(n),
            !.targetNames = target_names]

\* faces.flatten() of an (n, 3) index array
Flatten(fcs) == [k \in 1..(3 * Len(fcs)) |-> fcs[((k - 1) \div 3) + 1][((k - 1) % 3) + 1]]

\* an uploaded model without morph targets.  Either one bufferView per
\* section, positions first, or the indices first and then one bufferView
\* that holds positions and normals, told apart by the accessors' byteOffset.
UploadedGlb(vertices, fcs, vertex_normals, shared_view) ==
    LET pos == Vec3Bytes(vertices)
        nrm == Vec3Bytes(vertex_normals)
        idx == IndexBytes(fcs)
    IN  IF shared_view
        THEN [GLTF2(idx \o pos \o nrm, Len(idx) + Len(pos) + Len(nrm),
                    << BufferView(0, Len(idx), ELEMENT_ARRAY_BUFFER),
                       BufferView(Len(idx), Len(pos) + Len(nrm), ARRAY_BUFFER) >>,
                    << Accessor(0, UNSIGNED_INT, Len(fcs) * 3, "SCALAR", None, None),
                       Accessor(1, FLOAT, Len(vertices), "VEC3", MaxAxis0(vertices), MinAxis0(vertices)),
                       [Accessor(1, FLOAT, Len(vertex_normals), "VEC3", None, None)
                            EXCEPT !.byteOffset = Len(pos)] >>,
                    <<>>, <<>>, <<>>)
                EXCEPT !.POSITION = 1, !.NORMAL = 2, !.indices = 0]
        ELSE GLTF2(pos \o nrm \o idx, Len(pos) + Len(nrm) + Len(idx),
                   << BufferView(0, Len(pos), ARRAY_BUFFER),
                      BufferView(Len(pos), Len(nrm), ARRAY_BUFFER),
                      BufferView(Len(pos) + Len(nrm), Len(idx), ELEMENT_ARRAY_BUFFER) >>,
                   << Accessor(0, FLOAT, Len(vertices), "VEC3", MaxAxis0(vertices), MinAxis0(vertices)),
                      Accessor(1, FLOAT, Len(vertex_normals), "VEC3", None, None),
                      Accessor(2, UNSIGNED_INT, Len(fcs) * 3, "SCALAR", None, None) >>,
                   <<>>, <<>>, <<>>)

\* the two uploads the script is run on hold the float32 arrays of a mesh
InitAddMorph ==
    /\ pc = "mesh"
    /\ prog = "addmorph"
    /\ anatomy = <<>>
    /\ arm_segments = <<>>
    /\ \E arr \in VertexArrays : verts = AsFloat32(arr)
    /\ faces \in FaceLists(Len(verts))
    /\ \E nrm \in NormalArrays(Len(verts)) : mesh_normals = AsFloat32(nrm)
    /\ morphs = <<>>
    /\ gltf = None
    /\ files = Save(Save(NoFiles, "man_basic_shaded.glb",
                         UploadedGlb(verts, faces, mesh_normals, FALSE)),
                    "woman_basic_shaded.glb",
                    UploadedGlb(verts, faces, mesh_normals, TRUE))
    /\ loaded = None
    /\ metadata = None

\* add_morph_targets_to_glb(input_path, output_path, model_name)
AddMorphTargetsToGlb(input_path, output_path) ==
    LET g             == files[input_path]
        vertices      == AddMorphReadVertices(g)
        morph_targets == AddMorphTargets(vertices)
    IN  /\ verts' = vertices
        /\ morphs' = morph_targets
        /\ files' = Save(files, output_path, AddMorphAppend(g, morph_targets))

\* the call on the male upload
AddMorphMale ==
    /\ pc = "mesh" /\ prog = "addmorph"
    /\ AddMorphTargetsToGlb("man_basic_shaded.glb", "avatar_morphable.glb")
    /\ pc' = "male"
    /\ UNCHANGED <<prog, anatomy, arm_segments, faces, mesh_normals, gltf, loaded, metadata>>

\* the call on the female upload
AddMorphFemale ==
    /\ pc = "male" /\ prog = "addmorph"
    /\ AddMorphTargetsToGlb("woman_basic_shaded.glb", "avatar_female.glb")
    /\ pc' = "female"
    /\ UNCHANGED <<prog, anatomy, arm_segments, faces, mesh_normals, gltf, loaded, metadata>>

-----------------------------------------------------------------------------
(* create_ultra_detailed_avatar.py: create_morph_targets, export_glb, main *)

\* y_norm = v[1] / height in thousandths
UltraYNorm(v, height) == Quot(v[2] * 1000, height)

UltraWeight(vertices, height) ==
    [i \in 1..Len(vertices) |->
        LET v == vertices[i]
            torso_factor == Gauss(UltraYNorm(v, height) - 650, 80)
            factor == MulQ(700, 250 + MulQ(750, torso_factor, 1000), 1000)
        IN  IF FarFromAxis(v, 100) THEN Vec32(Radial(v, factor)) ELSE Zero3]

UltraAbdomen(vertices, height) ==
    [i \in 1..Len(vertices) |->
        LET v == vertices[i]
            y_factor == Gauss(UltraYNorm(v, height) - 600, 15)
            front_factor == Min(Quot(v[3] * 1000, 800), 1000)
        IN  IF v[3] > 0
            THEN Vec32(<< IF Abs(v[1]) > 500 THEN Sign(v[1]) * MulQ(300, y_factor, 1000) ELSE 0,
                          0,
                          MulQ(MulQ(1500, y_factor, 1000), front_factor, 1000) >>)
            ELSE Zero3]

UltraMuscle(vertices, height) ==
    [i \in 1..Len(vertices) |->
        LET v == vertices[i]
            y_norm == UltraYNorm(v, height)
            chest == IF InBand(v, 0, height, 750, 820) /\ v[3] > 200
                     THEN <<0, 0, MulQ(300, Gauss(y_norm - 790, 3), 1000)>> ELSE Zero3
            shoulders == IF InBand(v, 0, height, 840, 890) /\ Abs(v[1]) > 1200
                         THEN <<Sign(v[1]) * 250, 0, 0>> ELSE Zero3
            arms == IF Abs(v[1]) > 2000 /\ InBand(v, 0, height, 500, 850)
                    THEN <<Sign(v[1]) * 200, 0, 0>> ELSE Zero3
            thighs == IF InBand(v, 0, height, 280, 480) /\ FarFromAxis(v, 400)
                      THEN Radial(v, MulQ(200, Gauss(y_norm - 400, 10), 1000)) ELSE Zero3
        IN  Add3(Add3(Add3(Vec32(chest), shoulders), arms), thighs)]

UltraPosture(vertices, height) ==
    [i \in 1..Len(vertices) |->
        LET v == vertices[i]
            factor == Quot((UltraYNorm(v, height) - 820) * 1000, 180)
        IN  IF v[2] * 1000 > 820 * height
            THEN Vec32(<<0, -MulQ(700, MulQ(factor, factor, 1000), 1000), MulQ(800, factor, 1000)>>)
            ELSE Zero3]

\* the fluid-retention loop over the legs that follows the diabetes blend
UltraLegs(vertices, height, diabetes) ==
    [i \in 1..Len(vertices) |->
        LET v == vertices[i]
        IN  IF v[2] * 1000 < 300 * height /\ FarFromAxis(v, 200)
            THEN Add3(diabetes[i], Radial(v, 150))
            ELSE diabetes[i]]

\* fa * a + fb * b + fc * c, element by element (float32 arrays)
Blend3(fa, a, fb, b, fc, c) ==
    [i \in DOMAIN fa |-> Add3(Add3(Scale3(fa[i], a), Scale3(fb[i], b)), Scale3(fc[i], c))]

\* create_morph_targets(vertices, height) of create_ultra_detailed_avatar.py
UltraMorphTargets(vertices, height) ==
    LET weight  == UltraWeight(vertices, height)
        abdomen == UltraAbdomen(vertices, height)
        muscle  == UltraMuscle(vertices, height)
        posture == UltraPosture(vertices, height)
    IN  << Item("Weight", weight),
           Item("AbdomenGirth", abdomen),
           Item("MuscleMass", muscle),
           Item("Posture", posture),
           Item("DiabetesEffect",
                UltraLegs(vertices, height, Blend2(weight, 350, abdomen, 550))),
           Item("HypertensionEffect", Blend2(weight, 250, abdomen, 350)),
           Item("HeartDiseaseEffect", Blend3(weight, 450, posture, 350, abdomen, 200)) >>

\* list.index(x), 0-based
ListIndex(s, x) == (CHOOSE i \in DOMAIN s : s[i] = x /\ \A j \in 1..(i - 1) : s[j] # x) - 1

\* targets in the reverse of the order of names
TargetListReversed(names, m_acc) ==
    [i \in DOMAIN names |-> m_acc[names[Len(names) + 1 - i]]]

\* targets = [{"POSITION": m_acc[n]} for n in names]
TargetList(names, m_acc) == [i \in DOMAIN names |-> m_acc[names[i]]]

\* export_glb(vertices, faces, normals, morphs, output_name): the gltf object
ExportGlbUltra(vertices, fcs, normals, morph_dict) ==
    LET v_off   == 0
        n_off   == v_off + Len(Vec3Bytes(vertices))
        i_off   == n_off + Len(Vec3Bytes(normals))
        indices == Flatten(fcs)
        names   == Keys(morph_dict)
        n       == Len(names)
        lens    == [i \in 1..n |-> Len(Vec3Bytes(morph_dict[i].data))]
        m_start == i_off + Len(IndexBytes(fcs))
        m_offs  == [nm \in Range(names) |-> OffsetAfter(m_start, lens, ListIndex(names, nm) + 1)]
        m_acc   == [nm \in Range(names) |-> 3 + ListIndex(names, nm)]
        buffer  == Vec3Bytes(vertices) \o Vec3Bytes(normals) \o IndexBytes(fcs)
                   \o Concat([i \in 1..n |-> Vec3Bytes(morph_dict[i].data)])
    IN  GLTF2(buffer, Len(buffer),
              << BufferView(v_off, NBytes(vertices), ARRAY_BUFFER),
                 BufferView(n_off, NBytes(normals), ARRAY_BUFFER),
                 BufferView(i_off, 4 * Len(indices), ELEMENT_ARRAY_BUFFER) >>
              \o [i \in 1..n |-> BufferView(m_offs[names[i]], NBytes(morph_dict[i].data),
                                            ARRAY_BUFFER)],
              << Accessor(0, FLOAT, Len(vertices), "VEC3", MaxAxis0(vertices), MinAxis0(vertices)),
                 Accessor(1, FLOAT, Len(normals), "VEC3", None, None),
                 Accessor(2, UNSIGNED_INT, Len(indices), "SCALAR", None, None) >>
              \o [i \in 1..n |-> Accessor(3 + (i - 1), FLOAT, Len(morph_dict[i].data), "VEC3",
                                          MaxAxis0(morph_dict[i].data),
                                          MinAxis0(morph_dict[i].data))],
              TargetList(names, m_acc),
              Zeros(n),
              names)

\* arr[:, axis].sum() over the first k rows
RECURSIVE ColSum(_, _, _)
ColSum(arr, axis, k) == IF k = 0 THEN 0 ELSE ColSum(arr, axis, k - 1) + arr[k][axis]

\* arr[:, axis].mean() of a float32 array
ColMean(arr, axis) == ToF32(Quot(ColSum(arr, axis, Len(arr)), Len(arr)))

\* verts[:, 0] -= mean; verts[:, 2] -= mean; verts[:, 1] -= min
Centre(arr) ==
    [i \in DOMAIN arr |-> Vec32(<< arr[i][1] - ColMean(arr, 1),
                                   arr[i][2] - ColMin(arr, 2),
                                   arr[i][3] - ColMean(arr, 3) >>)]

\* lines 418-434: float32 arrays, centring, normals of the rebuilt mesh
UltraPrepare ==
    /\ pc = "mesh" /\ prog = "ultra"
    /\ verts' = Centre(AsFloat32(verts))
    /\ mesh_normals' = AsFloat32(mesh_normals)
    /\ pc' = "centred"
    /\ UNCHANGED <<prog, anatomy, arm_segments, faces, morphs, gltf, files, loaded, metadata>>

\* morphs = create_morph_targets(verts, actual_height)
UltraCreateMorphs ==
    /\ pc = "centred" /\ prog = "ultra"
    /\ morphs' = UltraMorphTargets(verts, ColMax(verts, 2))
    /\ pc' = "morphs"
    /\ UNCHANGED <<prog, anatomy, arm_segments, verts, faces, mesh_normals, gltf, files,
                 loaded, metadata>>

\* gltf, names = export_glb(verts, faces, normals, morphs, "avatar_morphable.glb")
UltraExport ==
    /\ pc = "morphs" /\ prog = "ultra"
    /\ gltf' = ExportGlbUltra(verts, faces, mesh_normals, morphs)
    /\ files' = Save(files, "avatar_morphable.glb", gltf')
    /\ pc' = "exported"
    /\ UNCHANGED <<prog, anatomy, arm_segments, verts, faces, mesh_normals, morphs, loaded,
                 metadata>>

\* the baseline saved with every weight 1.0
UltraSaveBaselineWeighted ==
    /\ pc = "exported" /\ prog = "ultra"
    /\ gltf' = [gltf EXCEPT !.weights = [k \in 1..Len(morphs) |-> 1000]]
    /\ files' = Save(files, "avatar_baseline.glb", gltf')
    /\ pc' = "baseline"
    /\ UNCHANGED <<prog, anatomy, arm_segments, verts, faces, mesh_normals, morphs, loaded,
                 metadata>>

\* gltf.meshes[0].weights = [0.0] * len(morphs); gltf.save("avatar_baseline.glb")
UltraSaveBaseline ==
    /\ pc = "exported" /\ prog = "ultra"
    /\ gltf' = [gltf EXCEPT !.weights = Zeros(Len(morphs))]
    /\ files' = Save(files, "avatar_baseline.glb", gltf')
    /\ pc' = "baseline"
    /\ UNCHANGED <<prog, anatomy, arm_segments, verts, faces, mesh_normals, morphs, loaded,
                 metadata>>

\* the weights main() gives the clinical variant, in thousandths
UltraClinicalWeights(names, n) ==
    LET w0 == Zeros(n)
        w1 == [w0 EXCEPT ![ListIndex(names, "Weight") + 1] = 600]
        w2 == [w1 EXCEPT ![ListIndex(names, "AbdomenGirth") + 1] = 700]
    IN  [w2 EXCEPT ![ListIndex(names, "DiabetesEffect") + 1] = 500]

\* gltf.meshes[0].weights = weights; gltf.save("avatar_clinical.glb")
UltraSaveClinical ==
    /\ pc = "baseline" /\ prog = "ultra"
    /\ gltf' = [gltf EXCEPT !.weights = UltraClinicalWeights(gltf.targetNames, Len(morphs))]
    /\ files' = Save(files, "avatar_clinical.glb", gltf')
    /\ pc' = "clinical"
    /\ UNCHANGED <<prog, anatomy, arm_segments, verts, faces, mesh_normals, morphs, loaded,
                 metadata>>

-----------------------------------------------------------------------------
(* generate_avatar_trimesh.py: create_morph_targets, export_glb_with_morphs, *)
(* main.  The displacement arrays are float64 until stored in the dict.      *)

\* get_region_mask(verts, y_min, y_max) for one vertex
InY(v, y_min, y_max) == v[2] >= y_min /\ v[2] <= y_max

TrimeshWeightDispl(vertices) ==
    [i \in 1..Len(vertices) |->
        LET v == vertices[i]
            center_dist == ISqrt(RadialSq(v))
            scale == IF InY(v, -1000, 7000) THEN 150 ELSE 80
            mag == MulQ(center_dist, scale, 1000)
        IN  IF FarFromAxis(v, 100)
            THEN <<Quot(v[1] * mag, center_dist), 0, Quot(v[3] * mag, center_dist)>>
            ELSE Zero3]

TrimeshAbdomenDispl(vertices) ==
    [i \in 1..Len(vertices) |->
        LET v == vertices[i]
            sq == v[1] * v[1] + (v[2] - 1500) * (v[2] - 1500) + (v[3] - 800) * (v[3] - 800)
            belly_dist == ISqrt(sq)
            belly_mask == sq < 2500 * 2500 /\ v[3] > -500
            influence == IF belly_mask
                         THEN ISqrt((1000 - Quot(belly_dist * 1000, 2500)) * 1000) ELSE 0
            px == Quot(v[1] * 3, 100)
            norm == ISqrt(px * px + 1000 * 1000) + 1
            amount == MulQ(800, influence, 1000)
        IN  <<MulQ(Quot(px * 1000, norm), amount, 1000), 0,
              MulQ(Quot(1000 * 1000, norm), amount, 1000)>>]

TrimeshMuscleDispl(vertices) ==
    [i \in 1..Len(vertices) |->
        LET v == vertices[i]
            arm_mask == InY(v, -2000, 6000) /\ Abs(v[1]) >= 1500
            leg_mask == v[2] <= -1000 /\ Abs(v[1]) <= 1500
            chest_mask == InY(v, 3000, 7000) /\ Abs(v[1]) <= 2000 /\ v[3] >= 0
            limb_norm == ISqrt(RadialSq(v)) + 10
            limb == IF arm_mask \/ leg_mask
                    THEN <<Quot(v[1] * 150, limb_norm), 0, Quot(v[3] * 150, limb_norm)>>
                    ELSE Zero3
        IN  <<limb[1], limb[2], limb[3] + (IF chest_mask THEN 150 ELSE 0)>>]

TrimeshPostureDispl(vertices) ==
    [i \in 1..Len(vertices) |->
        LET v == vertices[i]
            height_factor == Max(0, Min(1000, Quot((v[2] - 1000) * 1000, 7000)))
            shoulder_mask == v[2] > 4000 /\ Abs(v[1]) > 1500
        IN  << IF shoulder_mask THEN -(Sign(v[1]) * 150) ELSE 0,
               IF shoulder_mask THEN -200 ELSE 0,
               IF v[2] > 1000 THEN MulQ(500, height_factor, 1000) ELSE 0 >>]

\* fa * a + fb * b on float64 arrays, a and b in thousandths
Lin2(fa, a, fb, b) ==
    [i \in DOMAIN fa |-> << MulQ(fa[i][1], a, 1000) + MulQ(fb[i][1], b, 1000),
                            MulQ(fa[i][2], a, 1000) + MulQ(fb[i][2], b, 1000),
                            MulQ(fa[i][3], a, 1000) + MulQ(fb[i][3], b, 1000) >>]

\* create_morph_targets(base_vertices) of generate_avatar_trimesh.py
TrimeshMorphTargets(base_vertices) ==
    LET weight_displ  == TrimeshWeightDispl(base_vertices)
        abdomen_displ == TrimeshAbdomenDispl(base_vertices)
        muscle_displ  == TrimeshMuscleDispl(base_vertices)
        posture_displ == TrimeshPostureDispl(base_vertices)
    IN  << Item("Weight", AsFloat32(weight_displ)),
           Item("AbdomenGirth", AsFloat32(abdomen_displ)),
           Item("MuscleMass", AsFloat32(muscle_displ)),
           Item("Posture", AsFloat32(posture_displ)),
           Item("DiabetesEffect", AsFloat32(Lin2(abdomen_displ, 600, weight_displ, 300))),
           Item("HeartDiseaseEffect", AsFloat32(Lin2(posture_displ, 500, muscle_displ, -300))),
           Item("HypertensionEffect", AsFloat32(Lin2(weight_displ, 400, abdomen_displ, 300))) >>

\* one entry of base_morph_values, the value in thousandths
MorphValue(name, value) == [name |-> name, value |-> value]

\* for name, value in base_morph_values.items():
\*     if name in morph_targets: vertices = vertices + morph_targets[name] * value
RECURSIVE ApplyBaseMorphValues(_, _, _)
ApplyBaseMorphValues(vertices, morph_targets, base_morph_values) ==
    IF base_morph_values = <<>> THEN vertices
    ELSE LET it == Head(base_morph_values)
             moved == IF it.name \in Range(Keys(morph_targets))
                      THEN [i \in DOMAIN vertices |->
                               Add3(vertices[i], Scale3(Get(morph_targets, it.name)[i], it.value))]
                      ELSE vertices
         IN  ApplyBaseMorphValues(moved, morph_targets, Tail(base_morph_values))

\* export_glb_with_morphs(mesh, morph_targets, filepath, base_morph_values);
\* base_morph_values None or {} is <<>>
ExportGlbWithMorphs(mesh_vertices, mesh_faces, vertex_normals, morph_targets, base_morph_values) ==
    LET vertices      == ApplyBaseMorphValues(AsFloat32(mesh_vertices), morph_targets,
                                              base_morph_values)
        normals       == AsFloat32(vertex_normals)
        vertices_blob == Vec3Bytes(vertices)
        normals_blob  == Vec3Bytes(normals)
        indices_blob  == IndexBytes(mesh_faces)
        morph_names   == Keys(morph_targets)
        n             == Len(morph_names)
        displ(i)      == Get(morph_targets, morph_names[i])
        lens          == [i \in 1..n |-> Len(Vec3Bytes(displ(i)))]
        vertices_offset == 0
        normals_offset  == vertices_offset + Len(vertices_blob)
        indices_offset  == normals_offset + Len(normals_blob)
        morph_start     == indices_offset + Len(indices_blob)
        morph_offsets   == [nm \in Range(morph_names) |->
                               OffsetAfter(morph_start, lens, ListIndex(morph_names, nm) + 1)]
        buffer_data   == vertices_blob \o normals_blob \o indices_blob
                         \o Concat([i \in 1..n |-> Vec3Bytes(displ(i))])
    IN  GLTF2(buffer_data, Len(buffer_data),
              << BufferView(vertices_offset, Len(vertices_blob), ARRAY_BUFFER),
                 BufferView(normals_offset, Len(normals_blob), ARRAY_BUFFER),
                 BufferView(indices_offset, Len(indices_blob), ELEMENT_ARRAY_BUFFER) >>
              \o [i \in 1..n |-> BufferView(morph_offsets[morph_names[i]], NBytes(displ(i)),
                                            ARRAY_BUFFER)],
              << Accessor(0, FLOAT, Len(vertices), "VEC3", MaxAxis0(vertices), MinAxis0(vertices)),
                 Accessor(1, FLOAT, Len(normals), "VEC3", None, None),
                 Accessor(2, UNSIGNED_INT, Len(Flatten(mesh_faces)), "SCALAR", None, None) >>
              \o [i \in 1..n |-> Accessor(3 + (i - 1), FLOAT, Len(displ(i)), "VEC3",
                                          MaxAxis0(displ(i)), MinAxis0(displ(i)))],
              [i \in 1..n |-> 3 + (i - 1)],
              Zeros(n),
              morph_names)

\* base_morph_values of the baseline export in main()
BaselineMorphValues == << MorphValue("MuscleMass", 300) >>

\* base_morph_values of the clinical export in main()
ClinicalMorphValues ==
    << MorphValue("Weight", 500), MorphValue("AbdomenGirth", 700),
       MorphValue("MuscleMass", -200), MorphValue("Posture", 400),
       MorphValue("DiabetesEffect", 500) >>

\* combined.vertices[:, 1] -= 0.87: the humanoid mesh is centred vertically
InitTrimesh ==
    /\ pc = "mesh"
    /\ prog = "trimesh"
    /\ anatomy = <<>>
    /\ arm_segments = <<>>
    /\ \E arr \in VertexArrays :
          verts = [i \in DOMAIN arr |-> <<arr[i][1], arr[i][2] - 8700, arr[i][3]>>]
    /\ faces \in FaceLists(Len(verts))
    /\ mesh_normals \in NormalArrays(Len(verts))
    /\ morphs = <<>>
    /\ gltf = None
    /\ files = NoFiles
    /\ loaded = None
    /\ metadata = None

\* morph_targets = create_morph_targets(avatar_mesh.vertices)
TrimeshCreateMorphs ==
    /\ pc = "mesh" /\ prog = "trimesh"
    /\ morphs' = TrimeshMorphTargets(verts)
    /\ pc' = "morphs"
    /\ UNCHANGED <<prog, anatomy, arm_segments, verts, faces, mesh_normals, gltf, files,
                 loaded, metadata>>

\* export_glb_with_morphs(avatar_mesh, morph_targets, "avatar_morphable.glb")
TrimeshExportMorphable ==
    /\ pc = "morphs" /\ prog = "trimesh"
    /\ files' = Save(files, "avatar_morphable.glb",
                     ExportGlbWithMorphs(verts, faces, mesh_normals, morphs, <<>>))
    /\ pc' = "exported"
    /\ UNCHANGED <<prog, anatomy, arm_segments, verts, faces, mesh_normals, morphs, gltf,
                 loaded, metadata>>

\* the baseline export with the base morph values added to the mesh's own
\* vertex array (in place) before it is written
TrimeshExportBaselineInPlace ==
    /\ pc = "exported" /\ prog = "trimesh"
    /\ verts' = ApplyBaseMorphValues(AsFloat32(verts), morphs, BaselineMorphValues)
    /\ files' = Save(files, "avatar_baseline.glb",
                     ExportGlbWithMorphs(verts, faces, mesh_normals, morphs, BaselineMorphValues))
    /\ pc' = "baseline"
    /\ UNCHANGED <<prog, anatomy, arm_segments, faces, mesh_normals, morphs, gltf,
                 loaded, metadata>>

\* export_glb_with_morphs(..., "avatar_baseline.glb", base_morph_values={'MuscleMass': 0.3})
TrimeshExportBaseline ==
    /\ pc = "exported" /\ prog = "trimesh"
    /\ files' = Save(files, "avatar_baseline.glb",
                     ExportGlbWithMorphs(verts, faces, mesh_normals, morphs, BaselineMorphValues))
    /\ pc' = "baseline"
    /\ UNCHANGED <<prog, anatomy, arm_segments, verts, faces, mesh_normals, morphs, gltf,
                 loaded, metadata>>

\* export_glb_with_morphs(..., "avatar_clinical.glb", base_morph_values={...})
TrimeshExportClinical ==
    /\ pc = "baseline" /\ prog = "trimesh"
    /\ files' = Save(files, "avatar_clinical.glb",
                     ExportGlbWithMorphs(verts, faces, mesh_normals, morphs, ClinicalMorphValues))
    /\ pc' = "clinical"
    /\ UNCHANGED <<prog, anatomy, arm_segments, verts, faces, mesh_normals, morphs, gltf,
                 loaded, metadata>>

-----------------------------------------------------------------------------
(* The avatar_metadata.json each main() writes after its exports.  The      *)
(* free-text entries (source, generator, descriptions, usage notes) are     *)
(* left out.                                                                *)

\* {n: {"index": i, "range": [0, 1]} for i, n in enumerate(names)}
IndexedTargets(names) ==
    [i \in DOMAIN names |-> [name |-> names[i], index |-> i - 1, range |-> <<0, 1000>>]]

\* the "morphTargets" literal of generate_avatar_trimesh.py: a range per name
DescribedTargets ==
    << [name |-> "Weight",             range |-> <<-1000, 2000>>],
       [name |-> "AbdomenGirth",       range |-> <<0, 2000>>],
       [name |-> "MuscleMass",         range |-> <<-1000, 2000>>],
       [name |-> "Posture",            range |-> <<0, 1000>>],
       [name |-> "DiabetesEffect",     range |-> <<0, 1000>>],
       [name |-> "HeartDiseaseEffect", range |-> <<0, 1000>>],
       [name |-> "HypertensionEffect", range |-> <<0, 1000>>] >>

\* create_fixed_avatar.py main(): metadata, json.dump
FixedWriteMetadata ==
    /\ pc = "exported" /\ prog = "fixed"
    /\ metadata' = [morphTargets |-> IndexedTargets(Keys(morphs)),
                    vertexCount  |-> Len(verts),
                    faceCount    |-> Len(faces),
                    height       |-> HEIGHT]
    /\ pc' = "done"
    /\ UNCHANGED <<prog, anatomy, arm_segments, verts, faces, mesh_normals, morphs, gltf, files, loaded>>

\* create_simple_avatar.py main(): metadata, json.dump
SimpleWriteMetadata ==
    /\ pc = "female" /\ prog = "simple"
    /\ metadata' = [morphTargets |-> IndexedTargets(Keys(morphs)),
                    vertexCount  |-> Len(verts),
                    faceCount    |-> Len(faces),
                    height       |-> HEIGHT]
    /\ pc' = "done"
    /\ UNCHANGED <<prog, anatomy, arm_segments, verts, faces, mesh_normals, morphs, gltf, files, loaded>>

\* create_ultra_detailed_avatar.py main(): meta, json.dump; names is what
\* export_glb returned, actual_height = verts[:, 1].max() of the centred mesh
UltraWriteMetadata ==
    /\ pc = "clinical" /\ prog = "ultra"
    /\ metadata' = [morphTargets |-> IndexedTargets(gltf.targetNames),
                    vertexCount  |-> Len(verts),
                    faceCount    |-> Len(faces),
                    height       |-> ColMax(verts, 2)]
    /\ pc' = "done"
    /\ UNCHANGED <<prog, anatomy, arm_segments, verts, faces, mesh_normals, morphs, gltf, files, loaded>>

\* generate_avatar_trimesh.py main(): metadata, json.dump
TrimeshWriteMetadata ==
    /\ pc = "clinical" /\ prog = "trimesh"
    /\ metadata' = [morphTargets |-> DescribedTargets]
    /\ pc' = "done"
    /\ UNCHANGED <<prog, anatomy, arm_segments, verts, faces, mesh_normals, morphs, gltf, files, loaded>>

-----------------------------------------------------------------------------

Init ==
    \/ InitExport("fixed")
    \/ InitExport("simple")
    \/ InitExport("ultra")
    \/ InitTrimesh
    \/ InitAddMorph

Next ==
    \/ FixedCreateMorphs \/ FixedExport
    \/ SimpleCreateMorphs \/ SimpleExport \/ SimpleExportFemale
    \/ AddMorphMale \/ AddMorphFemale
    \/ UltraPrepare \/ UltraCreateMorphs \/ UltraExport
    \/ UltraSaveBaseline \/ UltraSaveClinical
    \/ TrimeshCreateMorphs \/ TrimeshExportMorphable
    \/ TrimeshExportBaseline \/ TrimeshExportClinical
    \/ FixedWriteMetadata \/ SimpleWriteMetadata
    \/ UltraWriteMetadata \/ TrimeshWriteMetadata
    \/ LoadGlb

Spec == Init /\ [][Next]_vars

-----------------------------------------------------------------------------
(* export_glb and export_to_glb called directly: the arrays a caller may    *)
(* pass, among them a morph set one field of which has another number of    *)
(* rows than the vertex array.                                              *)

\* field cut to its first k rows, or continued with zero rows up to k
Resize(field, k) == [i \in 1..k |-> IF i <= Len(field) THEN field[i] ELSE Zero3]

\* morph_dict with the field at position which resized to k rows
WithResized(morph_dict, which, k) ==
    [i \in DOMAIN morph_dict |->
        IF i = which THEN Item(morph_dict[i].name, Resize(morph_dict[i].data, k))
        ELSE morph_dict[i]]

\* delta.max(axis=0) of an array without rows raises ValueError
RaisesOnEmpty(morph_dict) == \E i \in DOMAIN morph_dict : Len(morph_dict[i].data) = 0

InitExportCall ==
    /\ pc = "call"
    /\ prog = "export_call"
    /\ anatomy = <<>>
    /\ arm_segments = <<>>
    /\ verts \in {AsFloat32(a) : a \in VertexArrays}
    /\ faces = [k \in 1..(Len(verts) - 2) |-> <<k - 1, k, k + 1>>]
    /\ mesh_normals = AsFloat32([k \in 1..Len(verts) |-> <<0, 0, 10000>>])
    /\ \E which \in 1..2, k \in 0..(MaxVerts + 1) :
           morphs = WithResized(FixedMorphTargets(verts), which, k)
    /\ gltf = None
    /\ files = NoFiles
    /\ loaded = None
    /\ metadata = None

\* export_glb(vertices, faces, normals, morphs, output_name)
CallExportGlb ==
    /\ pc = "call" /\ prog = "export_call"
    /\ IF RaisesOnEmpty(morphs)
       THEN /\ pc' = "error"
            /\ UNCHANGED <<gltf, files>>
       ELSE /\ gltf' = ExportGlbUltra(verts, faces, mesh_normals, morphs)
            /\ files' = Save(files, "avatar_morphable.glb", gltf')
            /\ pc' = "saved"
    /\ UNCHANGED <<prog, anatomy, arm_segments, verts, faces, mesh_normals, morphs, loaded,
                 metadata>>

\* export_to_glb(vertices, faces, morph_targets, output_path)
CallExportToGlb ==
    /\ pc = "call" /\ prog = "export_call"
    /\ IF RaisesOnEmpty(morphs)
       THEN /\ pc' = "error"
            /\ UNCHANGED files
       ELSE /\ files' = Save(files, "avatar_morphable.glb",
                             ExportToGlbFixed(verts, faces, morphs, mesh_normals))
            /\ pc' = "saved"
    /\ UNCHANGED <<prog, anatomy, arm_segments, verts, faces, mesh_normals, morphs, gltf,
                 loaded, metadata>>

NextExportCall == CallExportGlb \/ CallExportToGlb

SpecExportCall == InitExportCall /\ [][NextExportCall]_vars

-----------------------------------------------------------------------------
(* trimesh, as the scripts call it.  A mesh is [vertices, faces]; vertices  *)
(* generated at different code places have different coordinates, so        *)
(* merging by position merges nothing and only the culling of vertices no   *)
(* face refers to remains of merge_vertices.                                *)

\* the indices some face refers to
Referenced(fcs) == UNION {Range(fcs[k]) : k \in DOMAIN fcs}

\* the members of s at the positions lo..hi that are in the set keep, in order
RECURSIVE SelectAt(_, _, _, _)
SelectAt(s, keep, lo, hi) ==
    IF lo > hi THEN <<>>
    ELSE IF lo = hi THEN (IF lo \in keep THEN <<s[lo]>> ELSE <<>>)
    ELSE LET half == (lo + hi) \div 2
         IN  SelectAt(s, keep, lo, half) \o SelectAt(s, keep, half + 1, hi)

\* Trimesh(vertices, faces) with process=True, and mesh.merge_vertices():
\* vertices = vertices[mask], faces = inverse[faces]
MergeVertices(m) ==
    LET ref     == Referenced(m.faces)
        inverse == [i \in ref |-> Cardinality({r \in ref : r < i})]
    IN  [vertices |-> SelectAt(m.vertices, {i + 1 : i \in ref}, 1, Len(m.vertices)),
         faces    |-> [k \in DOMAIN m.faces |->
                          <<inverse[m.faces[k][1]], inverse[m.faces[k][2]],
                            inverse[m.faces[k][3]]>>]]

\* mesh.update_faces(mesh.nondegenerate_faces()): a face with a repeated
\* corner has no area
NondegenerateFaces(m) ==
    [vertices |-> m.vertices,
     faces    |-> SelectAt(m.faces, {k \in DOMAIN m.faces : Cardinality(Range(m.faces[k])) = 3},
                               1, Len(m.faces))]

\* mesh.update_faces(mesh.unique_faces()): the first face of every corner set
UniqueFaces(m) ==
    [vertices |-> m.vertices,
     faces    |-> SelectAt(m.faces,
                      {k \in DOMAIN m.faces :
                          \A h \in 1..(k - 1) : Range(m.faces[h]) # Range(m.faces[k])},
                      1, Len(m.faces))]

\* the row hash of a sorted edge: the larger end in the high bits
EdgeKey(a, b, n) == Max(a, b) * n + Min(a, b)

\* the members of a set of numbers within lo..hi, in increasing order
RECURSIVE SortedWithin(_, _, _)
SortedWithin(S, lo, hi) ==
    IF S = {} THEN <<>>
    ELSE IF lo = hi THEN <<lo>>
    ELSE LET half == (lo + hi) \div 2
         IN  SortedWithin({x \in S : x <= half}, lo, half)
             \o SortedWithin({x \in S : x > half}, half + 1, hi)

\* face corner c and the next one
EdgeOf(f, c, n) == EdgeKey(f[c], f[(c % 3) + 1], n)

\* mesh.subdivide(): one vertex per unique edge, four faces per face
Subdivide(m) ==
    LET n       == Len(m.vertices)
        keys    == UNION {{EdgeOf(m.faces[k], c, n) : c \in 1..3} : k \in DOMAIN m.faces}
        unique  == SortedWithin(keys, 0, n * n)
        mid     == [i \in DOMAIN unique |->
                       <<"mid", m.vertices[(unique[i] % n) + 1], m.vertices[(unique[i] \div n) + 1]>>]
        mid_idx == [k \in keys |-> n + Cardinality({x \in keys : x < k})]
        Four(f) == LET m0 == mid_idx[EdgeOf(f, 1, n)]
                       m1 == mid_idx[EdgeOf(f, 2, n)]
                       m2 == mid_idx[EdgeOf(f, 3, n)]
                   IN  << <<f[1], m0, m2>>, <<m0, f[2], m1>>, <<m2, m1, f[3]>>, <<m0, m1, m2>> >>
    IN  [vertices |-> m.vertices \o mid,
         faces    |-> [i \in 1..(4 * Len(m.faces)) |->
                          Four(m.faces[((i - 1) \div 4) + 1])[((i - 1) % 4) + 1]]]

-----------------------------------------------------------------------------
(* main() of create_ultra_detailed_avatar.py from the assembled mesh to the *)
(* arrays handed to morph synthesis and export.                             *)

\* the ring tables of the build runs: equal and unequal neighbours
BodyTables == SeqsOf({3, 4}, 1, 3)

LimbTables == SeqsOf({3, 4}, 1, 2)

\* the state after add_arms
InitUltraBuild ==
    /\ pc = "arms"
    /\ prog = "ultra_build"
    /\ anatomy \in BodyTables
    /\ arm_segments \in LimbTables
    /\ LET b == CreateBody(anatomy)
           m == AddArms(b.vertices, b.faces, arm_segments)
       IN  /\ verts = m.vertices
           /\ faces = m.faces
    /\ mesh_normals = <<>>
    /\ morphs = <<>>
    /\ gltf = None
    /\ files = NoFiles
    /\ loaded = None
    /\ metadata = None

\* lines 409-419: Trimesh, two subdivisions, Laplacian smoothing (which moves
\* coordinates and leaves the vertex order and the faces alone), the arrays
UltraRemesh ==
    /\ pc = "arms" /\ prog = "ultra_build"
    /\ LET mesh == Subdivide(Subdivide(MergeVertices([vertices |-> verts, faces |-> faces])))
       IN  /\ verts' = mesh.vertices
           /\ faces' = mesh.faces
    /\ pc' = "mesh"
    /\ UNCHANGED <<prog, anatomy, arm_segments, mesh_normals, morphs, gltf, files, loaded,
                 metadata>>

-----------------------------------------------------------------------------
(* create_fixed_avatar.py: the part meshes, merge_meshes and the repair of  *)
(* main().                                                                  *)

\* one step j of the stitcher of create_torso_mesh / create_leg_mesh /
\* create_arm_mesh: both faces, corners taken modulo the ring sizes
ModQuad(current_idx, prev_n, curr_n, j) ==
    LET prev_idx   == current_idx - prev_n + (j % prev_n)
        curr_idx_v == current_idx + (j % curr_n)
        next_prev  == current_idx - prev_n + ((j + 1) % prev_n)
        next_curr  == current_idx + ((j + 1) % curr_n)
    IN  << <<prev_idx, curr_idx_v, next_curr>>, <<prev_idx, next_curr, next_prev>> >>

\* for j in range(max(prev_n, curr_n)): ...
ModStitch(current_idx, prev_n, curr_n) ==
    [i \in 1..(2 * Max(prev_n, curr_n)) |->
        ModQuad(current_idx, prev_n, curr_n, (i - 1) \div 2)[((i - 1) % 2) + 1]]

\* the bands of a profile table, ring i starting at current_idx
RECURSIVE ModBands(_, _)
ModBands(tbl, i) ==
    IF i >= Len(tbl) THEN <<>>
    ELSE ModStitch(SumFirst(tbl, i), tbl[i], tbl[i + 1]) \o ModBands(tbl, i + 1)

\* create_torso_mesh: rings, bands, the top fan; the base stays open
CreateTorsoMesh(torso_profiles) ==
    LET ringVs     == RingVerts("torso", torso_profiles, 0)
        top_n      == torso_profiles[Len(torso_profiles)]
        top_start  == SumFirst(torso_profiles, Len(torso_profiles)) - top_n
        top_center == CapCenter(ringVs)
    IN  [vertices |-> Append(ringVs, <<"torso_top", 0, 0>>),
         faces    |-> ModBands(torso_profiles, 1) \o TopFan(top_start, top_n, top_center)]

\* create_leg_mesh: rings, bands, the sole fan
CreateLegMesh(leg_profiles, side) ==
    LET ringVs        == RingVerts(side, leg_profiles, 0)
        bottom_center == CapCenter(ringVs)
    IN  [vertices |-> Append(ringVs, <<"sole", side, 0>>),
         faces    |-> ModBands(leg_profiles, 1) \o BottomFan(leg_profiles[1], bottom_center)]

\* create_arm_mesh: rings, bands, the hand fan
CreateArmMesh(arm_profiles, side) ==
    LET ringVs      == RingVerts(side, arm_profiles, 0)
        hand_n      == arm_profiles[Len(arm_profiles)]
        hand_start  == SumFirst(arm_profiles, Len(arm_profiles)) - hand_n
        hand_center == CapCenter(ringVs)
    IN  [vertices |-> Append(ringVs, <<"palm", side, 0>>),
         faces    |-> ModBands(arm_profiles, 1) \o TopFan(hand_start, hand_n, hand_center)]

\* n_points of create_crotch_bridge
n_points == 12

\* create_crotch_bridge: a front row and a back row joined by quads
CreateCrotchBridge ==
    [vertices |-> [i \in 1..n_points |-> <<"crotch_front", i - 1, 0>>]
                  \o [i \in 1..n_points |-> <<"crotch_back", i - 1, 0>>],
     faces    |-> Concat([k \in 1..(n_points - 1) |->
                     << <<k - 1, k, n_points + k>>, <<k - 1, n_points + k, n_points + k - 1>> >>])]

\* fcs + vertex_offset
Shifted(fcs, vertex_offset) ==
    [k \in DOMAIN fcs |-> <<fcs[k][1] + vertex_offset, fcs[k][2] + vertex_offset,
                            fcs[k][3] + vertex_offset>>]

\* merge_meshes that extends the face list without adding vertex_offset
RECURSIVE MergeMeshesNoOffset(_, _)
MergeMeshesNoOffset(meshes, vertex_offset) ==
    IF meshes = <<>> THEN [vertices |-> <<>>, faces |-> <<>>]
    ELSE LET rest == MergeMeshesNoOffset(Tail(meshes), vertex_offset)
         IN  [vertices |-> Head(meshes).vertices \o rest.vertices,
              faces    |-> Head(meshes).faces \o rest.faces]

\* merge_meshes(meshes)
RECURSIVE MergeMeshes(_, _)
MergeMeshes(meshes, vertex_offset) ==
    IF meshes = <<>> THEN [vertices |-> <<>>, faces |-> <<>>]
    ELSE LET rest == MergeMeshes(Tail(meshes), vertex_offset + Len(Head(meshes).vertices))
         IN  [vertices |-> Head(meshes).vertices \o rest.vertices,
              faces    |-> Shifted(Head(meshes).faces, vertex_offset) \o rest.faces]

InitFixedBuild ==
    /\ pc = "start"
    /\ prog = "fixed_build"
    /\ anatomy \in [torso : BodyTables, leg : LimbTables, arm : LimbTables]
    /\ arm_segments = <<>>
    /\ verts = <<>>
    /\ faces = <<>>
    /\ mesh_normals = <<>>
    /\ morphs = <<>>
    /\ gltf = None
    /\ files = NoFiles
    /\ loaded = None
    /\ metadata = None

\* main() lines 519-546: the six parts, combined
FixedAssemble ==
    /\ pc = "start" /\ prog = "fixed_build"
    /\ LET m == MergeMeshes(<< CreateTorsoMesh(anatomy.torso),
                               CreateLegMesh(anatomy.leg, "leg_l"),
                               CreateLegMesh(anatomy.leg, "leg_r"),
                               CreateArmMesh(anatomy.arm, "arm_l"),
                               CreateArmMesh(anatomy.arm, "arm_r"),
                               CreateCrotchBridge >>, 0)
       IN  /\ verts' = m.vertices
           /\ faces' = m.faces
    /\ pc' = "assembled"
    /\ UNCHANGED <<prog, anatomy, arm_segments, mesh_normals, morphs, gltf, files, loaded,
                 metadata>>

\* the repair of main(): Trimesh(...), merge_vertices, nondegenerate_faces,
\* unique_faces, then fix_normals (which reorders corners inside faces) and
\* the Laplacian filter (which moves coordinates)
Repair(m) == UniqueFaces(NondegenerateFaces(MergeVertices(MergeVertices(m))))

\* main() lines 550-563
FixedRepair ==
    /\ pc = "assembled" /\ prog = "fixed_build"
    /\ LET mesh == Repair([vertices |-> verts, faces |-> faces])
       IN  /\ verts' = mesh.vertices
           /\ faces' = mesh.faces
    /\ pc' = "mesh"
    /\ UNCHANGED <<prog, anatomy, arm_segments, mesh_normals, morphs, gltf, files, loaded,
                 metadata>>

-----------------------------------------------------------------------------
(* create_avatar_v2.py: create_full_body_mesh and the repair of main().     *)
(* dims holds the sizes the function fixes: N_RADIAL, N_ARM, n_pants_pts    *)
(* and the lengths of its level tables.                                     *)

\* faces of one band between two rings of n points
EqualBand(base, next_base, n) ==
    Concat([k \in 1..n |->
        << <<base + (k - 1), next_base + (k - 1), next_base + (k % n)>>,
           <<base + (k - 1), next_base + (k % n), base + (k % n)>> >>])

\* for level in range(levels - 1): a band from ring level to ring level + 1,
\* rings lying stride apart from start on
RECURSIVE EqualBands(_, _, _, _, _)
EqualBands(start, stride, n, levels, level) ==
    IF level >= levels - 1 THEN <<>>
    ELSE EqualBand(start + level * stride, start + (level + 1) * stride, n)
         \o EqualBands(start, stride, n, levels, level + 1)

\* the leg rings: per level the left ring, then the right ring
RECURSIVE LegRings(_, _, _)
LegRings(n, levels, level) ==
    IF level >= levels THEN <<>>
    ELSE [j \in 1..n |-> <<"leg_l", level, j - 1>>] \o [j \in 1..n |-> <<"leg_r", level, j - 1>>]
         \o LegRings(n, levels, level + 1)

\* for level ...: for leg in range(2): the band of that leg
RECURSIVE LegBands(_, _, _)
LegBands(n, levels, level) ==
    IF level >= levels - 1 THEN <<>>
    ELSE EqualBand(level * 2 * n, (level + 1) * 2 * n, n)
         \o EqualBand(level * 2 * n + n, (level + 1) * 2 * n + n, n)
         \o LegBands(n, levels, level + 1)

\* faces.append([base + i_next, base + i, center_idx])
SoleFan(base, n, center_idx) ==
    [k \in 1..n |-> <<base + (k % n), base + (k - 1), center_idx>>]

\* one arm of create_full_body_mesh appended to the mesh built so far
V2Arm(m, side, n_arm, arm_levels) ==
    LET arm_start   == Len(m.vertices)
        withRings   == m.vertices \o RingVerts(side, [l \in 1..arm_levels |-> n_arm], 0)
        hand_base   == arm_start + (arm_levels - 1) * n_arm
        hand_center == CapCenter(withRings)
    IN  [vertices |-> Append(withRings, <<"hand", side, 0>>),
         faces    |-> m.faces \o EqualBands(arm_start, n_arm, n_arm, arm_levels, 0)
                      \o TopFan(hand_base, n_arm, hand_center)]

\* create_full_body_mesh
CreateFullBodyMesh(dims) ==
    LET N_RADIAL      == dims.N_RADIAL
        n_leg_levels  == dims.leg_levels
        legVs         == LegRings(N_RADIAL, n_leg_levels, 0)
        legFs         == LegBands(N_RADIAL, n_leg_levels, 0)
        sole_l        == CapCenter(legVs)
        vs1           == Append(legVs, <<"sole", 0, 0>>)
        sole_r        == CapCenter(vs1)
        vs2           == Append(vs1, <<"sole", 1, 0>>)
        soleFs        == SoleFan(0, N_RADIAL, sole_l) \o SoleFan(N_RADIAL, N_RADIAL, sole_r)
        vs3           == vs2 \o RingVerts("transition",
                                   [l \in 1..dims.transition_levels |-> dims.n_pants_pts], 0)
        torso_start_idx == Len(vs3)
        vs4           == vs3 \o RingVerts("torso", [l \in 1..dims.torso_levels |-> N_RADIAL], 0)
        torsoFs       == EqualBands(torso_start_idx, N_RADIAL, N_RADIAL, dims.torso_levels, 0)
        neck_start_idx == Len(vs4)
        vs5           == vs4 \o RingVerts("neck", [l \in 1..dims.neck_head_levels |-> N_RADIAL], 0)
        joinFs        == EqualBand(torso_start_idx + (dims.torso_levels - 1) * N_RADIAL,
                                   neck_start_idx, N_RADIAL)
        neckFs        == EqualBands(neck_start_idx, N_RADIAL, N_RADIAL, dims.neck_head_levels, 0)
        top_base      == neck_start_idx + (dims.neck_head_levels - 1) * N_RADIAL
        top_center    == CapCenter(vs5)
        vs6           == Append(vs5, <<"top", 0, 0>>)
        body          == [vertices |-> vs6,
                          faces    |-> legFs \o soleFs \o torsoFs \o joinFs \o neckFs
                                       \o TopFan(top_base, N_RADIAL, top_center)]
    IN  V2Arm(V2Arm(body, "arm_l", dims.N_ARM, dims.arm_levels),
              "arm_r", dims.N_ARM, dims.arm_levels)

\* the sizes explored for create_full_body_mesh
V2Dims ==
    [N_RADIAL : {3, 4}, N_ARM : {3}, n_pants_pts : {4, 6},
     leg_levels : {2, 3}, transition_levels : {1, 2}, torso_levels : {2, 3},
     neck_head_levels : {1, 2}, arm_levels : {2}]

InitV2Build ==
    /\ pc = "start"
    /\ prog = "v2_build"
    /\ anatomy \in V2Dims
    /\ arm_segments = <<>>
    /\ verts = <<>>
    /\ faces = <<>>
    /\ mesh_normals = <<>>
    /\ morphs = <<>>
    /\ gltf = None
    /\ files = NoFiles
    /\ loaded = None
    /\ metadata = None

\* vertices, faces = create_full_body_mesh(HEIGHT)
V2Assemble ==
    /\ pc = "start" /\ prog = "v2_build"
    /\ LET m == CreateFullBodyMesh(anatomy)
       IN  /\ verts' = m.vertices
           /\ faces' = m.faces
    /\ pc' = "assembled"
    /\ UNCHANGED <<prog, anatomy, arm_segments, mesh_normals, morphs, gltf, files, loaded,
                 metadata>>

\* main() lines 490-503 of create_avatar_v2.py
V2Repair ==
    /\ pc = "assembled" /\ prog = "v2_build"
    /\ LET mesh == Repair([vertices |-> verts, faces |-> faces])
       IN  /\ verts' = mesh.vertices
           /\ faces' = mesh.faces
    /\ pc' = "mesh"
    /\ UNCHANGED <<prog, anatomy, arm_segments, mesh_normals, morphs, gltf, files, loaded,
                 metadata>>

-----------------------------------------------------------------------------
(* The build runs: from the profile tables to the arrays of main() *)

InitBuild == InitUltraBuild \/ InitFixedBuild \/ InitV2Build

NextBuild == UltraRemesh \/ FixedAssemble \/ FixedRepair \/ V2Assemble \/ V2Repair

SpecBuild == InitBuild /\ [][NextBuild]_vars

-----------------------------------------------------------------------------
(* create_ellipsoid_profile.  Angles are whole degrees (the explored point  *)
(* counts divide 360 into multiples of 15 degrees), cosines and the three   *)
(* asymmetry factors are thousandths, lengths are 1e-4 m.                   *)

\* cos of 0, 15, ..., 90 degrees
CosTable == <<1000, 966, 866, 707, 500, 259, 0>>

\* np.cos(angle), angle a multiple of 15 degrees
CosDeg(a) ==
    LET r == a % 360
    IN  IF r <= 90 THEN CosTable[(r \div 15) + 1]
        ELSE IF r <= 180 THEN -CosTable[((180 - r) \div 15) + 1]
        ELSE IF r <= 270 THEN -CosTable[((r - 180) \div 15) + 1]
        ELSE CosTable[((360 - r) \div 15) + 1]

\* np.sin(angle)
SinDeg(a) == CosDeg(a + 270)

\* np.linspace(0, 2*np.pi, n_pts) with the end point included
AnglesWithEndpoint(n_pts) == [j \in 1..(n_pts + 1) |-> ((j - 1) * 360) \div n_pts]

\* np.linspace(0, 2*np.pi, n_pts, endpoint=False)
Angles(n_pts) == [j \in 1..n_pts |-> ((j - 1) * 360) \div n_pts]

\* create_ellipsoid_profile(width_x, depth_z, n_pts, front_flat, back_flat, side_bulge)
CreateEllipsoidProfile(width_x, depth_z, n_pts, front_flat, back_flat, side_bulge) ==
    LET angles == Angles(n_pts)
    IN  [j \in DOMAIN angles |->
            LET x0 == MulQ(width_x, CosDeg(angles[j]), 1000)
                z0 == MulQ(depth_z, SinDeg(angles[j]), 1000)
                z1 == IF z0 < 0 THEN MulQ(z0, 1000 - back_flat, 1000) ELSE z0
                z2 == IF z1 > 0 THEN MulQ(z1, 1000 - MulQ(front_flat, 300, 1000), 1000) ELSE z1
                x1 == IF Abs(CosDeg(angles[j])) > 700
                      THEN MulQ(x0, 1000 + side_bulge, 1000) ELSE x0
            IN  <<x1, z2>>]

\* the profiles explored: radii, point count, asymmetries in [0, 1]
ProfileInputs ==
    [width_x : {450, 1600, 2000}, depth_z : {500, 1100}, n_pts : {3, 4, 6, 8, 12, 24},
     front_flat : {0, 500, 1000}, back_flat : {0, 200, 1000}, side_bulge : {0, 150, 1000}]

InitProfile ==
    /\ pc = "start"
    /\ prog = "profile"
    /\ anatomy \in ProfileInputs
    /\ arm_segments = <<>>
    /\ verts = <<>>
    /\ faces = <<>>
    /\ mesh_normals = <<>>
    /\ morphs = <<>>
    /\ gltf = None
    /\ files = NoFiles
    /\ loaded = None
    /\ metadata = None

\* profile = create_ellipsoid_profile(w_x, d_z, n_pts, f_flat, b_flat, s_bulge)
CallCreateEllipsoidProfile ==
    /\ pc = "start" /\ prog = "profile"
    /\ verts' = CreateEllipsoidProfile(anatomy.width_x, anatomy.depth_z, anatomy.n_pts,
                                       anatomy.front_flat, anatomy.back_flat, anatomy.side_bulge)
    /\ pc' = "profile"
    /\ UNCHANGED <<prog, anatomy, arm_segments, faces, mesh_normals, morphs, gltf, files,
                 loaded, metadata>>

NextProfile == CallCreateEllipsoidProfile

SpecProfile == InitProfile /\ [][NextProfile]_vars

-----------------------------------------------------------------------------
(* create_morph_targets called directly on a vertex array: a sole vertex, an *)
(* apex vertex and one or two vertices of a grid that reaches every zone of  *)
(* the fields (lengths in 1e-4 m, all of them float32 values).               *)

GridX == {0, 1300, 2500}

GridY == {7000, 10500, 14000, 14788, 16800}

GridZ == {-400, 0, 300}

\* the vertex arrays handed to create_morph_targets
GridArrays ==
    {<< <<0, 0, 0>>, <<0, HEIGHT, 0>> >> \o g :
        g \in SeqsOf(GridX \X GridY \X GridZ, 1, 2)}

InitSynthCall ==
    /\ pc = "call"
    /\ prog = "synth_call"
    /\ anatomy = <<>>
    /\ arm_segments = <<>>
    /\ verts \in GridArrays
    /\ faces = <<>>
    /\ mesh_normals = <<>>
    /\ morphs = <<>>
    /\ gltf = None
    /\ files = NoFiles
    /\ loaded = None
    /\ metadata = None

\* create_ultra_detailed_avatar.py: create_morph_targets(verts, actual_height),
\* actual_height being verts[:, 1].max() as in main()
CallUltraCreateMorphTargets ==
    /\ pc = "call" /\ prog = "synth_call"
    /\ morphs' = UltraMorphTargets(verts, ColMax(verts, 2))
    /\ pc' = "ultra_fields"
    /\ UNCHANGED <<prog, anatomy, arm_segments, verts, faces, mesh_normals, gltf, files,
                 loaded, metadata>>

\* create_fixed_avatar.py: create_morph_targets(vertices, HEIGHT)
CallFixedCreateMorphTargets ==
    /\ pc = "call" /\ prog = "synth_call"
    /\ morphs' = FixedMorphTargets(verts)
    /\ pc' = "fixed_fields"
    /\ UNCHANGED <<prog, anatomy, arm_segments, verts, faces, mesh_normals, gltf, files,
                 loaded, metadata>>

NextSynthCall == CallUltraCreateMorphTargets \/ CallFixedCreateMorphTargets

SpecSynthCall == InitSynthCall /\ [][NextSynthCall]_vars

-----------------------------------------------------------------------------
(* Claims about the assembled mesh (checked under SpecMesh) *)

\* the number of faces of fcs that use vertex index v
FacesUsing(fcs, v) == Cardinality({k \in DOMAIN fcs : v \in Range(fcs[k])})

Differs(tbl) == \E i \in 1..(Len(tbl) - 1) : tbl[i] # tbl[i + 1]

\* C3: after create_detailed_human_body and after add_arms every index of
\* every face is >= 0 and < the number of vertices, for any ring tables with
\* point counts >= 3, equal or unequal between adjacent rings.
C3_FaceIndicesInRange ==
    pc \in {"body", "arms"} =>
        \A k \in DOMAIN faces : \A c \in 1..3 :
            faces[k][c] >= 0 /\ faces[k][c] < Len(verts)

\* arms attached to a body, both built from tables with unequal neighbours
C3_Witness ==
    /\ pc = "arms"
    /\ Differs(anatomy)
    /\ Differs(arm_segments)
    /\ Len(faces) > Len(verts)

\* C8: four rings of 8 points, stitched and capped at both ends, give 48 side
\* triangles and two cap fans of 8 triangles (64 faces), on 32 ring vertices
\* and 2 cap centres (34 vertices).
C8_MinimalTorsoCounts ==
    (pc = "body" /\ anatomy = <<8, 8, 8, 8>>) =>
        /\ Len(verts) = 34
        /\ Cardinality({k \in DOMAIN verts : verts[k][1] = "ring"}) = 32
        /\ verts[33] = <<"top", 0, 0>> /\ verts[34] = <<"bottom", 0, 0>>
        /\ Len(faces) = 64
        /\ FacesUsing(faces, 32) = 8
        /\ FacesUsing(faces, 33) = 8
        /\ Cardinality({k \in DOMAIN faces :
                          32 \notin Range(faces[k]) /\ 33 \notin Range(faces[k])}) = 48

C8_Witness == pc = "body" /\ anatomy = <<8, 8, 8, 8>> /\ Len(faces) > 0

-----------------------------------------------------------------------------
(* Claims about synthesis and export (checked under Spec) *)

\* the scripts that write a container from scratch
Generators == {"fixed", "simple", "ultra", "trimesh"}

\* the byteLengths of the bufferViews of g, in bufferView order
ViewLengths(g) == [k \in DOMAIN g.bufferViews |-> g.bufferViews[k].byteLength]

\* per-axis extrema of an (n, 3) array, lo = TRUE for the minimum
Extrema(arr, lo) ==
    IF lo THEN <<ColMin(arr, 1), ColMin(arr, 2), ColMin(arr, 3)>>
    ELSE <<ColMax(arr, 1), ColMax(arr, 2), ColMax(arr, 3)>>

\* positions, normals, indices and the morph targets in declared order sit in
\* bufferViews 0, 1, 2, 3.., each starting where the one before it ends
LaidOut(g) ==
    /\ Len(g.bufferViews) = 3 + Len(g.targets)
    /\ g.accessors[g.POSITION + 1].bufferView = 0
    /\ g.accessors[g.NORMAL + 1].bufferView = 1
    /\ g.accessors[g.indices + 1].bufferView = 2
    /\ \A i \in DOMAIN g.targets : g.accessors[g.targets[i] + 1].bufferView = 3 + (i - 1)
    /\ \A k \in DOMAIN g.bufferViews :
          g.bufferViews[k].byteOffset = SumFirst(ViewLengths(g), k - 1)
    /\ g.byteLength = SumFirst(ViewLengths(g), Len(g.bufferViews))
    /\ g.byteLength = Len(g.blob)

C4_OneVectorPerVertex ==
    morphs # <<>> =>
        /\ Len(morphs) = 7
        /\ \A k \in DOMAIN morphs :
              /\ Len(morphs[k].data) = Len(verts)
              /\ \A i \in DOMAIN morphs[k].data : Len(morphs[k].data[i]) = 3

\* fields synthesised for a four-vertex array, with a displaced vertex
C4_Witness ==
    /\ prog = "fixed"
    /\ Len(verts) = 4
    /\ Len(morphs) = 7
    /\ \E i \in DOMAIN verts : Get(morphs, "Weight")[i] # Zero3

\* the bytes of bufferView k (1-based) of container g
Section(g, k) ==
    SubSeq(g.blob, g.bufferViews[k].byteOffset + 1,
           g.bufferViews[k].byteOffset + g.bufferViews[k].byteLength)

\* the containers of a run that carry morph targets
Exported == {path \in DOMAIN files : Len(files[path].targets) > 0}

\* the variant files a run writes next to avatar_morphable.glb
Variants == {"avatar_baseline.glb", "avatar_clinical.glb"} \cap DOMAIN files

\* the weight vector main() gives each variant, values in thousandths
WeightVector(path) ==
    CASE prog = "ultra" /\ path = "avatar_clinical.glb" ->
            << MorphValue("Weight", 600), MorphValue("AbdomenGirth", 700),
               MorphValue("DiabetesEffect", 500) >>
      [] prog = "trimesh" /\ path = "avatar_baseline.glb" -> BaselineMorphValues
      [] prog = "trimesh" /\ path = "avatar_clinical.glb" -> ClinicalMorphValues
      [] OTHER -> <<>>

\* the value a weight vector gives a name, 0 when it does not name it
ValueFor(vec, name) ==
    IF \E k \in DOMAIN vec : vec[k].name = name
    THEN (CHOOSE it \in Range(vec) : it.name = name).value
    ELSE 0

\* the morph set a container was exported with
FieldsOf(path) ==
    IF prog = "simple" /\ path = "avatar_female.glb"
    THEN SimpleMorphTargets(FemaleVerts(verts))
    ELSE morphs

\* the position array handed to the writer of a container
PositionsWritten(path) ==
    CASE prog = "simple" /\ path = "avatar_female.glb" -> FemaleVerts(verts)
      [] prog = "trimesh" ->
            ApplyBaseMorphValues(AsFloat32(verts), morphs, WeightVector(path))
      [] OTHER -> verts

\* two containers equal in everything but the initial weights
DifferOnlyInWeights(a, b) == [a EXCEPT !.weights = <<>>] = [b EXCEPT !.weights = <<>>]

\* C2: the morphable container and a variant exported from the same mesh and
\* morph set with a non-empty weight vector have identical position, normal,
\* index and morph-target buffers and differ only in the initial weights.
C2_VariantsShareBuffers ==
    \A path \in Variants :
        LET a == files["avatar_morphable.glb"]
            b == files[path]
        IN  /\ \A k \in DOMAIN a.bufferViews : Section(a, k) = Section(b, k)
            /\ DifferOnlyInWeights(a, b)

\* C5: at every vertex DiabetesEffect = 0.5 Weight + 0.8 AbdomenGirth,
\* HypertensionEffect = 0.3 Weight + 0.4 AbdomenGirth and HeartDiseaseEffect =
\* 0.2 Weight + 0.5 Posture, with no other term.
C5_CompositesAreFixedBlends ==
    morphs # <<>> =>
        LET weight  == Get(morphs, "Weight")
            abdomen == Get(morphs, "AbdomenGirth")
            posture == Get(morphs, "Posture")
        IN  /\ Get(morphs, "DiabetesEffect") = Blend2(weight, 500, abdomen, 800)
            /\ Get(morphs, "HypertensionEffect") = Blend2(weight, 300, abdomen, 400)
            /\ Get(morphs, "HeartDiseaseEffect") = Blend2(weight, 200, posture, 500)

\* C6: in every exported container targets, weights and targetNames have the
\* same length, and the accessor at targets[i] points to the bytes of the
\* field named targetNames[i].
C6_TargetsWeightsNamesAgree ==
    \A path \in DOMAIN files :
        LET g == files[path]
        IN  /\ Len(g.targets) = Len(g.weights)
            /\ Len(g.targets) = Len(g.targetNames)
            /\ \A i \in DOMAIN g.targets :
                  ReadAccessor(g, g.targets[i]) = Get(FieldsOf(path), g.targetNames[i])

\* a container whose seven targets are not all the same field
C6_Witness ==
    /\ prog = "ultra"
    /\ \E path \in DOMAIN files :
          /\ Len(files[path].targets) = 7
          /\ Get(morphs, files[path].targetNames[1]) # Get(morphs, files[path].targetNames[7])

\* C7: in every exported container the initial weight of each morph target is
\* the value the variant's weight vector gives its name and 0.0 for a target
\* the vector does not name; the morphable variant has all weights 0.
C7_InitialWeightsFollowVariant ==
    \A path \in Exported :
        LET g == files[path]
        IN  \A i \in DOMAIN g.weights :
              g.weights[i] = ValueFor(WeightVector(path), g.targetNames[i])

\* C9: the arrays read back from a written container through each accessor's
\* bufferView offset and count are the vertex, normal, index and morph arrays
\* that were written, byte for byte, and the per-axis min/max recomputed from
\* the read data equal the declared ones.
C9_RoundTrip ==
    loaded # None =>
        LET g   == files[loaded.path]
            arr == loaded.arrays
        IN  /\ arr[g.POSITION + 1] = PositionsWritten(loaded.path)
            /\ arr[g.NORMAL + 1] = AsFloat32(mesh_normals)
            /\ arr[g.indices + 1] = Flatten(faces)
            /\ \A i \in DOMAIN g.targets :
                  arr[g.targets[i] + 1] = Get(FieldsOf(loaded.path), g.targetNames[i])
            /\ Vec3Bytes(arr[g.POSITION + 1]) = Vec3Bytes(PositionsWritten(loaded.path))
            /\ Vec3Bytes(arr[g.NORMAL + 1]) = Vec3Bytes(AsFloat32(mesh_normals))
            /\ \A i \in DOMAIN g.targets :
                  Vec3Bytes(arr[g.targets[i] + 1])
                      = Vec3Bytes(Get(FieldsOf(loaded.path), g.targetNames[i]))
            /\ \A k \in DOMAIN g.accessors :
                  g.accessors[k].min # None =>
                      /\ Extrema(arr[k], TRUE) = g.accessors[k].min
                      /\ Extrema(arr[k], FALSE) = g.accessors[k].max

\* a container written by export_to_glb read back, with a displaced vertex
C9_Witness ==
    /\ loaded # None
    /\ prog = "simple"
    /\ Len(files[loaded.path].targets) = 7
    /\ \E i \in DOMAIN verts : loaded.arrays[4][i] # Zero3
    /\ \E i \in DOMAIN verts : loaded.arrays[1][i][1] < 0

\* the accessors of g that carry displaced or rest positions
PositionLike(g) == {g.POSITION} \cup {g.targets[i] : i \in DOMAIN g.targets}

\* accessor a (0-based) of g declares the extrema of the data it points to
DeclaresOwnExtrema(g, a) ==
    /\ g.accessors[a + 1].min = Extrema(ReadAccessor(g, a), TRUE)
    /\ g.accessors[a + 1].max = Extrema(ReadAccessor(g, a), FALSE)

\* C10: every VEC3 accessor of an exported container (positions, normals and
\* each morph target) declares min and max, equal to the per-axis extrema of
\* its own data.
C10_EveryVec3DeclaresExtrema ==
    prog \in Generators =>
        \A path \in DOMAIN files :
            \A k \in DOMAIN files[path].accessors :
                files[path].accessors[k].type = "VEC3" => DeclaresOwnExtrema(files[path], k - 1)

\* C10 as the exporters have it: the position accessor and each morph-target
\* accessor declare min and max equal to the per-axis extrema of their own
\* data; the normal accessor declares neither.
C10_PositionLikeDeclareExtrema ==
    prog \in Generators =>
        \A path \in DOMAIN files :
            LET g == files[path]
            IN  /\ \A a \in PositionLike(g) : DeclaresOwnExtrema(g, a)
                /\ g.accessors[g.NORMAL + 1].min = None
                /\ g.accessors[g.NORMAL + 1].max = None

\* a container whose morph-target extrema differ from those of its positions
C10_Witness ==
    /\ prog = "trimesh"
    /\ \E path \in Variants :
          /\ files[path].accessors[1].min # files[path].accessors[4].min
          /\ files[path].accessors[6].max # files[path].accessors[4].max
          /\ files[path].accessors[1].min # files["avatar_morphable.glb"].accessors[1].min

-----------------------------------------------------------------------------
(* Claims about direct exporter calls (checked under SpecExportCall) *)

\* some morph field has another number of rows than the vertex array
LengthMismatch == \E i \in DOMAIN morphs : Len(morphs[i].data) # Len(verts)

\* C11: when a morph target's length differs from the base vertex count the
\* export ends in an error before serialization and no container file is
\* written.
C11_MismatchEndsInError ==
    (prog = "export_call" /\ pc # "call" /\ LengthMismatch) =>
        (pc = "error" /\ files = NoFiles)

\* a container was written although a field is shorter than the vertex array
C11_Witness ==
    /\ prog = "export_call" /\ pc = "saved"
    /\ LengthMismatch
    /\ "avatar_morphable.glb" \in DOMAIN files
    /\ \E i \in DOMAIN morphs :
           /\ Len(morphs[i].data) < Len(verts)
           /\ files["avatar_morphable.glb"].accessors[3 + i].count = Len(morphs[i].data)

-----------------------------------------------------------------------------
(* Claims about the built mesh (checked under SpecBuild and SpecMesh) *)

\* a face with a repeated vertex index
Degenerate(f) == Cardinality(Range(f)) < 3

\* two adjacent rings, the later one with fewer points
Narrows(tbl) == \E i \in 1..(Len(tbl) - 1) : tbl[i] > tbl[i + 1]

\* C12: no face with a repeated vertex index is among the faces main() hands
\* to morph synthesis and export: the degenerate triangles the stitcher emits
\* between rings of unequal point count are gone by then.
C12_NoDegenerateFaceReachesSynthesis ==
    (prog = "ultra_build" /\ pc = "mesh") =>
        \A k \in DOMAIN faces : ~Degenerate(faces[k])

\* an ultra mesh from a narrowing body table, ready for synthesis, that still
\* holds a face with a repeated index
C12_Witness ==
    /\ prog = "ultra_build" /\ pc = "mesh"
    /\ Narrows(anatomy)
    /\ \E k \in DOMAIN faces : Degenerate(faces[k])

\* the number of faces of fcs that touch the undirected edge {a, b}
EdgeFaces(fcs, a, b) == Cardinality({k \in DOMAIN fcs : {a, b} \subseteq Range(fcs[k])})

\* every undirected edge of fcs belongs to at most 2 faces
EdgeManifold(fcs) ==
    \A k \in DOMAIN fcs : \A c \in 1..3 :
        LET a == fcs[k][c]
            b == fcs[k][(c % 3) + 1]
        IN  a # b => EdgeFaces(fcs, a, b) <= 2

\* C13: the mesh main() holds after assembly and repair is edge-manifold:
\* every undirected edge belongs to at most 2 faces, also when adjacent rings
\* have different point counts.
C13_EdgeManifoldAfterRepair ==
    (prog \in {"fixed_build", "ultra_build"} /\ pc = "mesh") => EdgeManifold(faces)

\* a repaired create_fixed_avatar mesh whose torso narrows and which has an
\* edge in more than two faces
C13_Witness ==
    /\ prog = "fixed_build" /\ pc = "mesh"
    /\ Narrows(anatomy.torso)
    /\ ~EdgeManifold(faces)

\* the vertices create_full_body_mesh generated
Generated == Range(CreateFullBodyMesh(anatomy).vertices)

\* the vertices of the mesh that some face refers to
WithFace == {verts[i + 1] : i \in Referenced(faces)}

\* C14: after assembly and repair no vertex that create_full_body_mesh
\* generated (ring points, transition profiles, cap centres) is left without
\* a face, and every vertex of the mesh is referenced by at least one face.
C14_EveryGeneratedVertexHasAFace ==
    (prog = "v2_build" /\ pc = "mesh") =>
        /\ \A i \in DOMAIN verts : (i - 1) \in Referenced(faces)
        /\ Generated \subseteq WithFace

\* the repaired mesh has lost the transition profiles: no face ever referred
\* to them
C14_Witness ==
    /\ prog = "v2_build" /\ pc = "mesh"
    /\ \A i \in DOMAIN verts : (i - 1) \in Referenced(faces)
    /\ <<"transition", 0, 0>> \in Generated \ Range(verts)

-----------------------------------------------------------------------------
(* Claims about the morph fields (checked under Spec) *)

\* vertex i lies on the vertical axis
OnMidline(i) == verts[i][1] = 0 /\ verts[i][3] = 0

\* the programs whose main() keeps vertices and morph set side by side
Synthesizers == {"fixed", "simple", "ultra", "trimesh", "addmorph"}

\* C15: the Weight field is the zero vector at every vertex on the midline
\* (x = z = 0), whatever its height.
C15_WeightZeroOnMidline ==
    (prog \in Synthesizers /\ morphs # <<>>) =>
        \A i \in DOMAIN verts : OnMidline(i) => Get(morphs, "Weight")[i] = Zero3

\* create_fixed_avatar computed its fields for a mesh with a midline vertex
\* inside the Weight band and a vertex the Weight field moves
C15_Witness ==
    /\ prog = "fixed" /\ morphs # <<>>
    /\ \E i \in DOMAIN verts :
           /\ OnMidline(i)
           /\ InBand(verts[i], ColMin(verts, 2), ColMax(verts, 2), 200, 900)
    /\ \E j \in DOMAIN verts : Get(morphs, "Weight")[j] # Zero3

\* the height bands (lo, hi), in thousandths of the body height, inside which
\* create_morph_targets of create_fixed_avatar.py lets a field act
HeightBands(name) ==
    CASE name = "Weight"             -> {<<200, 900>>}
      [] name = "AbdomenGirth"       -> {<<500, 750>>}
      [] name = "MuscleMass"         -> {<<750, 900>>, <<100, 450>>}
      [] name = "Posture"            -> {<<500, 950>>}
      [] name = "DiabetesEffect"     -> {<<200, 900>>, <<500, 750>>}
      [] name = "HypertensionEffect" -> {<<200, 900>>, <<500, 750>>}
      [] name = "HeartDiseaseEffect" -> {<<200, 900>>, <<500, 950>>}

\* vertex i is outside every height band of the field
OutsideBands(name, i) ==
    \A b \in HeightBands(name) :
        ~InBand(verts[i], ColMin(verts, 2), ColMax(verts, 2), b[1], b[2])

\* the fields whose zone tests include one on x alone (the arm zone)
HasLateralZone(name) == name = "MuscleMass"

\* C16, as stated: for every morph field, a vertex whose normalised height
\* lies outside that field's active height band gets exactly the zero vector,
\* whatever its x and z coordinates.
C16_ZeroOutsideHeightBand ==
    (prog = "fixed" /\ morphs # <<>>) =>
        \A k \in DOMAIN morphs : \A i \in DOMAIN verts :
            OutsideBands(morphs[k].name, i) => morphs[k].data[i] = Zero3

\* C16, amended: outside its height bands every field is exactly zero, except
\* that MuscleMass also acts on vertices with |x| > 0.15 at any height.
C16_ZeroOutsideBandOrLateralZone ==
    (prog = "fixed" /\ morphs # <<>>) =>
        \A k \in DOMAIN morphs : \A i \in DOMAIN verts :
            (/\ OutsideBands(morphs[k].name, i)
             /\ HasLateralZone(morphs[k].name) => Abs(verts[i][1]) <= 1500)
                => morphs[k].data[i] = Zero3

\* a vertex off the axis lies outside the Weight band and one inside it is
\* moved; an arm vertex outside both MuscleMass bands is moved by MuscleMass
C16_Witness ==
    /\ prog = "fixed" /\ morphs # <<>>
    /\ \E i, j \in DOMAIN verts :
           /\ OutsideBands("Weight", i) /\ FarFromAxis(verts[i], 200)
           /\ Get(morphs, "Weight")[j] # Zero3
    /\ \E i \in DOMAIN verts :
           /\ OutsideBands("MuscleMass", i)
           /\ Get(morphs, "MuscleMass")[i] # Zero3

-----------------------------------------------------------------------------
(* Claims about the ring profiles (checked under SpecProfile) *)

\* the squared radial distance of ring point p = (x, z) is at most lim squared
WithinRadius(p, lim) == p[1] * p[1] + p[2] * p[2] <= lim * lim

-----------------------------------------------------------------------------
(* Claims about short ring tables (checked under SpecMesh) *)

\* face f belongs to a cap fan: one of its corners is a cap centre
CapFace(f) == \E c \in 1..3 : verts[f[c] + 1][1] \in {"top", "bottom"}

-----------------------------------------------------------------------------
(* Claims about the metadata file (checked under Spec) *)

\* the metadata entry e gives target name nm the index idx
ListsAt(e, nm, idx) == e.name = nm /\ "index" \in DOMAIN e /\ e.index = idx

\* C19: the metadata file lists every morph target by name with the index the
\* target has in the container's target list, and records the vertex count,
\* the face count and the body height of the exported mesh.
C19_MetadataMatchesContainer ==
    (prog \in {"ultra", "trimesh"} /\ metadata # None) =>
        LET g == files["avatar_morphable.glb"]
        IN  /\ \A i \in DOMAIN g.targetNames :
                   \E k \in DOMAIN metadata.morphTargets :
                       ListsAt(metadata.morphTargets[k], g.targetNames[i], i - 1)
            /\ "vertexCount" \in DOMAIN metadata
            /\ metadata.vertexCount = g.accessors[1].count
            /\ "faceCount" \in DOMAIN metadata
            /\ metadata.faceCount * 3 = g.accessors[3].count
            /\ "height" \in DOMAIN metadata
            /\ metadata.height = g.accessors[1].max[2] - g.accessors[1].min[2]

\* the trimesh generator wrote its metadata: names and ranges, no index and
\* no mesh statistics
C19_Witness ==
    /\ prog = "trimesh" /\ pc = "done"
    /\ \A k \in DOMAIN metadata.morphTargets : "index" \notin DOMAIN metadata.morphTargets[k]
    /\ DOMAIN metadata = {"morphTargets"}
    /\ Len(files["avatar_morphable.glb"].targetNames) = Len(metadata.morphTargets)

-----------------------------------------------------------------------------
(* Claims about the order of the pipeline (checked under Spec) *)

\* the float32 positions the morph fields stored in a container were computed from
MorphSource(path) ==
    IF prog = "simple" /\ path = "avatar_female.glb"
    THEN AsFloat32(FemaleVerts(verts))
    ELSE AsFloat32(verts)

\* the positions a reader finds in the container
PositionsIn(path) == ReadAccessor(files[path], files[path].POSITION)

\* every container with morph targets holds the positions its fields were
\* computed from
PositionsAreMorphSource == \A path \in Exported : PositionsIn(path) = MorphSource(path)

\* once the morph fields exist no step changes the vertex array
NoMoveAfterSynthesis == morphs # <<>> => verts' = verts

\* C20: morph fields are computed only after the last step that changes
\* vertex positions or vertex order, and the positions written to the
\* container are exactly the positions the morph fields were computed from.
C20_MorphsBelongToExportedPositions ==
    [](PositionsAreMorphSource) /\ [][NoMoveAfterSynthesis]_vars

\* the trimesh generator wrote a variant whose positions are not the ones
\* its morph fields were computed from
C20_Witness ==
    /\ prog = "trimesh"
    /\ "avatar_baseline.glb" \in Exported
    /\ PositionsIn("avatar_baseline.glb") # MorphSource("avatar_baseline.glb")
    /\ PositionsIn("avatar_morphable.glb") = MorphSource("avatar_morphable.glb")
    /\ Len(PositionsIn("avatar_baseline.glb")) = Len(verts)

-----------------------------------------------------------------------------
(* Claims about the walk of the ring stitcher *)

\* the corner of a ring of P points starting at start, at step j of m
Corner(start, P, m, j) == start + (((j * P) \div m) % P)

\* the triangles of one band walked in max(Pa, Pb) steps: at every step the
\* triangle (p, c, nc), and the triangle (p, nc, np) at every step (always)
\* or only at the steps where the corner of the previous ring advances
WalkedBand(prev_start, Pa, curr_start, Pb, always) ==
    LET m == Max(Pa, Pb)
        RECURSIVE Step(_)
        Step(j) ==
            IF j >= m THEN <<>>
            ELSE LET p   == Corner(prev_start, Pa, m, j)
                     c   == Corner(curr_start, Pb, m, j)
                     np1 == Corner(prev_start, Pa, m, j + 1)
                     nc1 == Corner(curr_start, Pb, m, j + 1)
                 IN  <<<<p, c, nc1>>>>
                     \o (IF always \/ p # np1 THEN <<<<p, nc1, np1>>>> ELSE <<>>)
                     \o Step(j + 1)
    IN  Step(0)

\* the bands of a ring table whose first vertex has index base
WalkedRings(tbl, base, always) ==
    LET RECURSIVE Bands(_)
        Bands(i) ==
            IF i >= Len(tbl) THEN <<>>
            ELSE WalkedBand(base + SumFirst(tbl, i - 1), tbl[i],
                            base + SumFirst(tbl, i), tbl[i + 1], always)
                 \o Bands(i + 1)
    IN  Bands(1)

\* the face list is the walked bands of the body, its two fans, and, once the
\* arms are added, per arm its walked bands and its hand fan
FacesAreWalkedBands(always) ==
    LET body == WalkedRings(anatomy, 0, always)
        nb   == Len(body) + anatomy[Len(anatomy)] + anatomy[1]
        vb   == SumFirst(anatomy, Len(anatomy)) + 2
        va   == SumFirst(arm_segments, Len(arm_segments)) + 1
        hn   == arm_segments[Len(arm_segments)]
        left == WalkedRings(arm_segments, vb, always)
        rght == WalkedRings(arm_segments, vb + va, always)
        nl   == nb + Len(left) + hn
    IN  /\ pc \in {"body", "arms"} =>
              /\ Len(faces) >= nb
              /\ SubSeq(faces, 1, Len(body)) = body
        /\ pc = "body" => Len(faces) = nb
        /\ pc = "arms" =>
              /\ Len(faces) = nl + Len(rght) + hn
              /\ SubSeq(faces, nb + 1, nb + Len(left)) = left
              /\ SubSeq(faces, nl + 1, nl + Len(rght)) = rght

\* C21: for each pair of adjacent rings with point counts Pa and Pb the
\* stitcher walks max(Pa, Pb) steps and at step j takes the corner of each
\* ring at index (j * P) // max(Pa, Pb), the next corner at j + 1 wrapped round
\* the ring, and emits the quad of the four corners as two triangles.
C21_EveryStepGivesTwoTriangles == FacesAreWalkedBands(TRUE)

\* C21 (amended): the same walk and the same corners, but a step emits the
\* second triangle (p, nc, np) only where the corner of the previous ring
\* advances; a step at which it repeats emits the single triangle (p, c, nc).
C21_SecondTriangleOnlyWherePrevAdvances == FacesAreWalkedBands(FALSE)

\* C21 witness: body and arms are stitched, the body has a band that widens
\* and a band that narrows, and the arm rings have unequal point counts.
C21_Witness ==
    /\ pc = "arms"
    /\ \E i \in 1..(Len(anatomy) - 1) : anatomy[i] < anatomy[i + 1]
    /\ \E i \in 1..(Len(anatomy) - 1) : anatomy[i] > anatomy[i + 1]
    /\ Len(arm_segments) = 2
    /\ arm_segments[1] < arm_segments[2]
    /\ faces = AddArms(CreateBody(anatomy).vertices, CreateBody(anatomy).faces,
                       arm_segments).faces

-----------------------------------------------------------------------------
(* Claims about the triangles of one stitched band *)

\* the positions in the face list of the faces between body ring i and ring
\* i + 1 (rings counted from 1): all three corners on those two rings
BandFaces(i) ==
    LET lo == SumFirst(anatomy, i - 1)
        hi == SumFirst(anatomy, i + 1) - 1
    IN  {k \in DOMAIN faces : \A c \in 1..3 : faces[k][c] \in lo..hi}

\* the band faces with three distinct corners
ProperBandFaces(i) == {k \in BandFaces(i) : ~Degenerate(faces[k])}

\* every edge between consecutive points of the ring of n points starting at
\* start is an edge of exactly one of the faces at the positions in S
RingEdgesOnce(S, start, n) ==
    \A j \in 0..(n - 1) :
        Cardinality({k \in S : {start + j, start + ((j + 1) % n)} \subseteq Range(faces[k])}) = 1

\* C22: for every pair of adjacent rings with point counts Pa, Pb >= 3 the
\* body stitcher emits exactly Pa + Pb triangles with three distinct vertex
\* indices, and every edge between two consecutive points of either ring
\* belongs to exactly one of those triangles.
C22_BandHasPaPlusPbTriangles ==
    pc \in {"body", "arms"} =>
        \A i \in 1..(Len(anatomy) - 1) :
            /\ Cardinality(ProperBandFaces(i)) = anatomy[i] + anatomy[i + 1]
            /\ RingEdgesOnce(ProperBandFaces(i), SumFirst(anatomy, i - 1), anatomy[i])
            /\ RingEdgesOnce(ProperBandFaces(i), SumFirst(anatomy, i), anatomy[i + 1])

\* C22 witness: a stitched body with a widening band, and a narrowing band in
\* which the stitcher also emitted a triangle with a repeated index.
C22_Witness ==
    /\ pc = "body"
    /\ \E i \in 1..(Len(anatomy) - 1) : anatomy[i] < anatomy[i + 1]
    /\ \E i \in 1..(Len(anatomy) - 1) :
          /\ anatomy[i] > anatomy[i + 1]
          /\ ProperBandFaces(i) # BandFaces(i)

-----------------------------------------------------------------------------
(* Claims about the winding of the body mesh *)

\* face f traverses the edge from a to b: b follows a in its corner cycle
Traverses(f, a, b) == \E c \in 1..3 : f[c] = a /\ f[(c % 3) + 1] = b

\* no two non-degenerate faces of fcs traverse an edge in the same direction
ConsistentWinding(fcs) ==
    LET proper == {k \in DOMAIN fcs : ~Degenerate(fcs[k])}
    IN  \A k \in proper : \A c \in 1..3 :
            \A k2 \in proper \ {k} :
                ~Traverses(fcs[k2], fcs[k][c], fcs[k][(c % 3) + 1])

\* C23: in the body mesh built by create_detailed_human_body, before any
\* normal-fixing pass, any two non-degenerate faces sharing an edge traverse
\* it in opposite directions, the edges shared between the sole fan and the
\* first ring and between the apex fan and the last ring included.
C23_ConsistentWinding ==
    pc = "body" => ConsistentWinding(faces)

\* C23 witness: a body of at least three rings with a widening and a narrowing
\* band, where a sole-fan face and a band face share an edge of the first ring
\* and an apex-fan face and a band face share an edge of the last ring.
C23_Witness ==
    /\ pc = "body"
    /\ Len(anatomy) >= 3
    /\ \E i \in 1..(Len(anatomy) - 1) : anatomy[i] < anatomy[i + 1]
    /\ \E i \in 1..(Len(anatomy) - 1) : anatomy[i] > anatomy[i + 1]
    /\ LET n      == SumFirst(anatomy, Len(anatomy))
           top    == n - anatomy[Len(anatomy)]
       IN  /\ \E k, k2 \in DOMAIN faces :
                 /\ n + 1 \in Range(faces[k]) /\ Traverses(faces[k], 0, 1)
                 /\ n + 1 \notin Range(faces[k2]) /\ Traverses(faces[k2], 1, 0)
           /\ \E k, k2 \in DOMAIN faces :
                 /\ n \in Range(faces[k]) /\ Traverses(faces[k], top + 1, top)
                 /\ n \notin Range(faces[k2]) /\ Traverses(faces[k2], top, top + 1)

-----------------------------------------------------------------------------
(* Claims about the concatenation of parts *)

\* an empty mesh
NoMesh == [vertices |-> <<>>, faces |-> <<>>]

\* the parts in the order they are concatenated, each with its own indices
\* from 0: the six meshes handed to merge_meshes, or the body and the two arms
Parts ==
    IF prog = "fixed_build"
    THEN << CreateTorsoMesh(anatomy.torso),
            CreateLegMesh(anatomy.leg, "leg_l"), CreateLegMesh(anatomy.leg, "leg_r"),
            CreateArmMesh(anatomy.arm, "arm_l"), CreateArmMesh(anatomy.arm, "arm_r"),
            CreateCrotchBridge >>
    ELSE << CreateBody(anatomy),
            AddOneArm(NoMesh, arm_segments, -1), AddOneArm(NoMesh, arm_segments, 1) >>

\* the number of vertices (what = 1) or faces (what = 2) of the first n parts
RECURSIVE CountBefore(_, _, _)
CountBefore(parts, n, what) ==
    IF n = 0 THEN 0
    ELSE CountBefore(parts, n - 1, what)
         + (IF what = 1 THEN Len(parts[n].vertices) ELSE Len(parts[n].faces))

\* part p sits in the concatenation at the vertex count of the parts before
\* it: its vertices follow theirs, its faces are its own faces plus that
\* offset, and each of them stays inside the part's own index range
PartInOwnRange(parts, p) ==
    LET vo == CountBefore(parts, p - 1, 1)
        fo == CountBefore(parts, p - 1, 2)
        nv == Len(parts[p].vertices)
    IN  /\ \A k \in 1..Len(parts[p].faces) : \A c \in 1..3 :
              /\ faces[fo + k][c] = parts[p].faces[k][c] + vo
              /\ faces[fo + k][c] \in vo..(vo + nv - 1)
        /\ \A i \in 1..nv : verts[vo + i] = parts[p].vertices[i]

\* the concatenated mesh is at hand
Concatenated ==
    \/ prog = "fixed_build" /\ pc = "assembled"
    \/ prog = "ultra_build" /\ pc = "arms"

\* C24: when parts are concatenated, the face indices of each part are offset
\* by the total vertex count of the parts before it, so every face of a part
\* refers only to vertices in that part's own index range and no vertex
\* belongs to two parts.
C24_PartsKeepTheirOwnVertices ==
    Concatenated =>
        /\ Len(verts) = CountBefore(Parts, Len(Parts), 1)
        /\ Len(faces) = CountBefore(Parts, Len(Parts), 2)
        /\ \A p \in 1..Len(Parts) : PartInOwnRange(Parts, p)

\* C24 witness: six parts merged by merge_meshes, the last one's faces
\* referring to vertices behind those of the five parts before it.
C24_Witness ==
    /\ prog = "fixed_build" /\ pc = "assembled"
    /\ CountBefore(Parts, 5, 1) > 0
    /\ \A c \in 1..3 : faces[Len(faces)][c] >= CountBefore(Parts, 5, 1)
    /\ faces[1] = Parts[1].faces[1]

-----------------------------------------------------------------------------
(* Claims about what synthesis and export leave alone *)

\* the vertex array create_morph_targets is called with: create_fixed_avatar
\* and create_simple_avatar convert the mesh's vertices to float32 in the
\* same step, the other scripts hand over the array they hold
SynthesisInput == IF prog \in {"fixed", "simple"} THEN AsFloat32(verts) ELSE verts

\* a synthesis step returns the morph set and leaves its input arrays as
\* they were; every step after it (exports with any weights, variant saves,
\* the metadata) leaves vertices, faces and all morph fields as they were
MeshAndMorphsKept ==
    /\ (morphs = <<>> /\ morphs' # <<>>) => (verts' = SynthesisInput /\ faces' = faces)
    /\ morphs # <<>> => (verts' = verts /\ faces' = faces /\ morphs' = morphs)

\* C25: morph synthesis and variant export never modify the mesh or the morph
\* set: after create_morph_targets and after any sequence of exports with any
\* weight vectors the vertex and face arrays and all morph fields are what
\* they were before, so each later export starts from the same base geometry.
C25_SynthesisAndExportKeepMesh == [][MeshAndMorphsKept]_vars

\* C25 witness: three exports from one mesh and morph set are done, one of
\* them wrote positions moved by base morph values, and the morph set is still
\* the one synthesized from the vertex array the program holds.
C25_Witness ==
    /\ prog = "trimesh" /\ pc = "clinical"
    /\ {"avatar_morphable.glb", "avatar_baseline.glb", "avatar_clinical.glb"} \subseteq Exported
    /\ PositionsIn("avatar_clinical.glb") # PositionsIn("avatar_morphable.glb")
    /\ PositionsIn("avatar_morphable.glb") = AsFloat32(verts)
    /\ morphs = TrimeshMorphTargets(verts)

-----------------------------------------------------------------------------
(* Claims about the AbdomenGirth field *)

\* displacement d has no x and no y component and does not point backwards
PurelyForward(d) == d[1] = 0 /\ d[2] = 0 /\ d[3] >= 0

\* C26: the AbdomenGirth displacement of every vertex has zero x and y
\* components and a non-negative z component (purely forward), and it is the
\* zero vector for every posterior vertex (z <= 0).
C26_AbdomenGirthPurelyForward ==
    (prog \in {"fixed", "ultra"} /\ morphs # <<>>) =>
        \A i \in DOMAIN verts :
            /\ PurelyForward(Get(morphs, "AbdomenGirth")[i])
            /\ verts[i][3] <= 0 => Get(morphs, "AbdomenGirth")[i] = Zero3

\* create_fixed_avatar computed AbdomenGirth for a mesh with a posterior
\* vertex that the field pushes sideways and backwards
C26_Witness ==
    /\ prog = "fixed" /\ morphs # <<>>
    /\ \E i \in DOMAIN verts :
          /\ verts[i][3] < 0
          /\ Get(morphs, "AbdomenGirth")[i][3] < 0
          /\ Get(morphs, "AbdomenGirth")[i][1] # 0

-----------------------------------------------------------------------------
(* Claims about the zones of the MuscleMass field *)

\* the contributions the four tests of the ultra MuscleMass loop add for
\* vertex v: chest, shoulders, arms, thighs
UltraMuscleZones(v, height) ==
    LET y_norm == UltraYNorm(v, height)
    IN  << IF InBand(v, 0, height, 750, 820) /\ v[3] > 200
           THEN <<0, 0, MulQ(300, Gauss(y_norm - 790, 3), 1000)>> ELSE Zero3,
           IF InBand(v, 0, height, 840, 890) /\ Abs(v[1]) > 1200
           THEN <<Sign(v[1]) * 250, 0, 0>> ELSE Zero3,
           IF Abs(v[1]) > 2000 /\ InBand(v, 0, height, 500, 850)
           THEN <<Sign(v[1]) * 200, 0, 0>> ELSE Zero3,
           IF InBand(v, 0, height, 280, 480) /\ FarFromAxis(v, 400)
           THEN Radial(v, MulQ(200, Gauss(y_norm - 400, 10), 1000)) ELSE Zero3 >>

\* the zones that contribute to the displacement of vertex v
Contributing(v, height) ==
    {z \in 1..4 : UltraMuscleZones(v, height)[z] # Zero3}

\* the sum the four tests leave in muscle[i]
SumOfZones(v, height) ==
    LET z == UltraMuscleZones(v, height)
    IN  Add3(Add3(Add3(Vec32(z[1]), z[2]), z[3]), z[4])

\* the two contributions of the fixed MuscleMass loop for a vertex off the
\* axis: upper body and arms, and legs
FixedMuscleZones(v) ==
    << Vec32(Radial(v, MulQ(SCALE_fixed, 800, 1000))),
       Vec32(Radial(v, MulQ(SCALE_fixed, 600, 1000))) >>

\* C27: no vertex falls in more than one MuscleMass zone (lateral arm,
\* anterior chest band, leg height band), so each vertex's MuscleMass
\* displacement is the contribution of at most one zone and never the sum of
\* two zone contributions.
C27_MuscleMassZonesDisjoint ==
    /\ pc = "ultra_fields" =>
          \A i \in DOMAIN verts :
              /\ Get(morphs, "MuscleMass")[i] = SumOfZones(verts[i], ColMax(verts, 2))
              /\ Cardinality(Contributing(verts[i], ColMax(verts, 2))) <= 1
    /\ pc = "fixed_fields" =>
          \A i \in DOMAIN verts :
              \/ Get(morphs, "MuscleMass")[i] = Zero3
              \/ /\ FarFromAxis(verts[i], 200)
                 /\ Get(morphs, "MuscleMass")[i] \in Range(FixedMuscleZones(verts[i]))

\* the ultra synthesis ran on a front arm vertex at chest height: it is in the
\* chest zone and in the arm zone and its displacement has both the forward
\* chest push and the sideways arm push
C27_Witness ==
    /\ pc = "ultra_fields"
    /\ \E i \in DOMAIN verts :
          /\ Contributing(verts[i], ColMax(verts, 2)) = {1, 3}
          /\ Get(morphs, "MuscleMass")[i][1] # 0
          /\ Get(morphs, "MuscleMass")[i][3] # 0

-----------------------------------------------------------------------------
(* Claims about the Posture field *)

\* the height threshold of the Posture loop that produced the fields, in
\* thousandths of the normalised height
PostureThreshold == IF pc = "ultra_fields" THEN 820 ELSE 500

\* the normalised height of vertex i above the threshold, in thousandths
AboveThreshold(i) ==
    Quot((verts[i][2] - ColMin(verts, 2)) * 1000, ColMax(verts, 2) - ColMin(verts, 2))
        - PostureThreshold

\* component c of the Posture field is proportional to the square of the
\* height above the threshold: for any two vertices above it the components
\* are in the ratio of the squares, up to the rounding of three length units
ProportionalToSquare(c) ==
    \A i, j \in DOMAIN verts :
        (AboveThreshold(i) > 0 /\ AboveThreshold(j) > 0) =>
            LET qi == AboveThreshold(i) * AboveThreshold(i)
                qj == AboveThreshold(j) * AboveThreshold(j)
                di == Get(morphs, "Posture")[i][c]
                dj == Get(morphs, "Posture")[j][c]
            IN  Abs(di * qj - dj * qi) <= 3 * (qi + qj)

\* C28: the Posture field is zero at and below its height threshold, and above
\* it both components, the downward pull (negative y) and the forward lean
\* (positive z), are proportional to the square of the normalised height
\* above the threshold.
C28_PostureQuadraticAboveThreshold ==
    pc \in {"ultra_fields", "fixed_fields"} =>
        /\ \A i \in DOMAIN verts :
              /\ AboveThreshold(i) <= 0 => Get(morphs, "Posture")[i] = Zero3
              /\ Get(morphs, "Posture")[i][1] = 0
              /\ Get(morphs, "Posture")[i][2] <= 0
              /\ Get(morphs, "Posture")[i][3] >= 0
        /\ ProportionalToSquare(2)
        /\ ProportionalToSquare(3)

\* the ultra synthesis ran on two vertices at different heights above the
\* threshold: both are pulled down and pushed forward, the pull follows the
\* square of the height and the lean does not
C28_Witness ==
    /\ pc = "ultra_fields"
    /\ \E i, j \in DOMAIN verts :
          /\ 0 < AboveThreshold(i) /\ AboveThreshold(i) < AboveThreshold(j)
          /\ Get(morphs, "Posture")[i][2] < 0 /\ Get(morphs, "Posture")[i][3] > 0
    /\ ProportionalToSquare(2)
    /\ ~ProportionalToSquare(3)

-----------------------------------------------------------------------------
(* Claims about add_morph_targets_to_glb *)

\* the (input, output) paths of the calls made so far
AddMorphCalls ==
    {c \in {<<"man_basic_shaded.glb", "avatar_morphable.glb">>,
            <<"woman_basic_shaded.glb", "avatar_female.glb">>} : c[2] \in DOMAIN files}

\* container out is container in with n_targets fields of 12 bytes per vertex
\* appended and nothing else of the buffer, bufferViews and accessors changed
OnlyAppended(in, out, n_targets) ==
    LET nb == Len(in.bufferViews)
        na == Len(in.accessors)
        vertexCount == in.accessors[in.POSITION + 1].count
    IN  /\ SubSeq(out.blob, 1, Len(in.blob)) = in.blob
        /\ Len(out.bufferViews) = nb + n_targets
        /\ Len(out.accessors) = na + n_targets
        /\ SubSeq(out.bufferViews, 1, nb) = in.bufferViews
        /\ SubSeq(out.accessors, 1, na) = in.accessors
        /\ out.bufferViews[nb + 1].byteOffset = Len(in.blob)
        /\ \A k \in 2..n_targets :
              out.bufferViews[nb + k].byteOffset =
                  out.bufferViews[nb + k - 1].byteOffset + out.bufferViews[nb + k - 1].byteLength
        /\ out.byteLength = in.byteLength + n_targets * 12 * vertexCount
        /\ Len(out.blob) = out.byteLength

\* C29: add_morph_targets_to_glb only appends: the original binary blob is an
\* unchanged prefix of the new buffer, every pre-existing bufferView and
\* accessor is unchanged, the first new bufferView starts at len(original
\* blob) and each following one at the previous offset plus its byteLength,
\* and the buffer's byteLength becomes the original length plus
\* 7 x 12 x vertexCount.
C29_AddMorphOnlyAppends ==
    prog = "addmorph" =>
        \A c \in AddMorphCalls : OnlyAppended(files[c[1]], files[c[2]], 7)

\* C29 witness: both uploads were processed, the second of them with
\* positions and normals in one shared bufferView; the outputs are longer
\* than the inputs and have seven targets.
C29_Witness ==
    /\ prog = "addmorph" /\ Cardinality(AddMorphCalls) = 2
    /\ \A c \in AddMorphCalls :
          /\ Len(files[c[2]].blob) > Len(files[c[1]].blob)
          /\ Len(files[c[1]].blob) > 0
          /\ Len(files[c[2]].targets) = 7
    /\ files["woman_basic_shaded.glb"].accessors[3].byteOffset > 0

-----------------------------------------------------------------------------
(* Claims about the three variants saved from one container object *)

\* every initial weight of container g is 0.0
AllWeightsZero(g) == \A k \in DOMAIN g.weights : g.weights[k] = 0

\* containers g and h hold the same buffer, bufferViews and accessors
SameBinary(g, h) ==
    /\ g.blob = h.blob /\ g.byteLength = h.byteLength
    /\ g.bufferViews = h.bufferViews /\ g.accessors = h.accessors
    /\ g.targets = h.targets

\* C30: in the three-variant export sequence (morphable, baseline, clinical
\* saved from one container object) the baseline container is written with
\* every initial weight 0.0 and is identical to the morphable container in
\* all buffers, accessors and weights; only the clinical container has any
\* non-zero weight.
C30_BaselineEqualsMorphable ==
    prog = "ultra" =>
        /\ "avatar_morphable.glb" \in DOMAIN files =>
              AllWeightsZero(files["avatar_morphable.glb"])
        /\ "avatar_baseline.glb" \in DOMAIN files =>
              /\ AllWeightsZero(files["avatar_baseline.glb"])
              /\ SameBinary(files["avatar_baseline.glb"], files["avatar_morphable.glb"])
              /\ files["avatar_baseline.glb"].weights = files["avatar_morphable.glb"].weights
        /\ "avatar_clinical.glb" \in DOMAIN files =>
              /\ ~AllWeightsZero(files["avatar_clinical.glb"])
              /\ SameBinary(files["avatar_clinical.glb"], files["avatar_morphable.glb"])

\* C30 witness: the ultra script saved all three variants; the clinical one
\* differs from the other two, which have seven zero weights each.
C30_Witness ==
    /\ prog = "ultra" /\ pc = "clinical"
    /\ {"avatar_morphable.glb", "avatar_baseline.glb", "avatar_clinical.glb"} \subseteq DOMAIN files
    /\ Len(files["avatar_baseline.glb"].weights) = 7
    /\ files["avatar_clinical.glb"] # files["avatar_baseline.glb"]
    /\ Len(files["avatar_morphable.glb"].blob) > 0

====
